---- MODULE Spec2Model ----
(***************************************************************************)
(* Suno Saarthi backend: the session store (SessionManager/Session), the   *)
(* response extractor (clean_llm_response), the generation client          *)
(* (LLMGemini.chat) and the chat / navigation-query handlers.              *)
(*                                                                         *)
(* A Python str is modelled as a sequence of one-character strings, so     *)
(* that searching, trimming and lower-casing are computed, not assumed.    *)
(* A code point outside ASCII is written by its name ("u0928").            *)
(***************************************************************************)
EXTENDS Integers, Sequences, FiniteSets, TLC

(***************************************************************************)
(* Text helpers (Python str methods and the `re` constructs the code uses) *)
(***************************************************************************)

\* str.strip() and the regex class \s
Whitespace == {" ", "\t", "\n", "\r"}

\* the regex class [ऀ-ॿ] (Devanagari block)
Devanagari == {"u0928", "u092E", "u0938"}

UpperCase == <<"A", "B", "C", "D", "E", "F", "G", "H", "I", "J", "K", "L", "M",
               "N", "O", "P", "Q", "R", "S", "T", "U", "V", "W", "X", "Y", "Z">>

LowerCase == <<"a", "b", "c", "d", "e", "f", "g", "h", "i", "j", "k", "l", "m",
               "n", "o", "p", "q", "r", "s", "t", "u", "v", "w", "x", "y", "z">>

lowerChar(c) ==
    IF \E i \in 1..Len(UpperCase) : UpperCase[i] = c
    THEN LowerCase[CHOOSE i \in 1..Len(UpperCase) : UpperCase[i] = c]
    ELSE c

\* str.lower()
lower(s) == [i \in 1..Len(s) |-> lowerChar(s[i])]

SetMin(S) == CHOOSE x \in S : \A y \in S : x <= y

RECURSIVE LStrip(_)
LStrip(s) == IF s # <<>> /\ Head(s) \in Whitespace THEN LStrip(Tail(s)) ELSE s

RECURSIVE RStrip(_)
RStrip(s) ==
    IF s # <<>> /\ s[Len(s)] \in Whitespace
    THEN RStrip(SubSeq(s, 1, Len(s) - 1))
    ELSE s

\* str.strip()
strip(s) == RStrip(LStrip(s))

\* s[i:] with the 1-based index i
From(s, i) == SubSeq(s, i, Len(s))

\* p occurs in s at index i
StartsAt(s, p, i) ==
    /\ i >= 1
    /\ i + Len(p) - 1 <= Len(s)
    /\ \A j \in 1..Len(p) : s[i + j - 1] = p[j]

\* index of the first occurrence of p in s at or after index from; 0 when none
Find(s, p, from) ==
    LET hits == {i \in from..(Len(s) - Len(p) + 1) : StartsAt(s, p, i)}
    IN  IF hits = {} THEN 0 ELSE SetMin(hits)

\* Python's `p in s`
Contains(p, s) == Find(s, p, 1) # 0

\* index of the first character at or after i that is not whitespace (Len(s)+1 when none)
SkipSpace(s, i) ==
    SetMin({j \in i..(Len(s) + 1) : j = Len(s) + 1 \/ s[j] \notin Whitespace})

\* `$` under re.MULTILINE at index i: the end of the text or just before a newline
EndOfLine(s, i) == i = Len(s) + 1 \/ (i <= Len(s) /\ s[i] = "\n")

(***************************************************************************)
(* clean_llm_response: the five regex rules, in the order of the code      *)
(***************************************************************************)

SaarthiMarker == <<"S", "a", "a", "r", "t", "h", "i", ":">>

\* re.search(r'Saarthi:\s*"?(.*?)"?$', text, MULTILINE | DOTALL): group(1), or
\* NoMatch. The search starts at the first marker; \s* and "? are greedy, the
\* group is lazy and stops at the first end of line (after an optional quote).
NoMatch == [matched |-> FALSE, group |-> <<>>]

Matched(g) == [matched |-> TRUE, group |-> g]

saarthi_match(text) ==
    LET i == Find(text, SaarthiMarker, 1)
    IN  IF i = 0 THEN NoMatch
        ELSE LET p1 == SkipSpace(text, i + Len(SaarthiMarker))
                 p2 == IF p1 <= Len(text) /\ text[p1] = "\"" THEN p1 + 1 ELSE p1
                 e  == SetMin({k \in p2..(Len(text) + 1) :
                                  \/ EndOfLine(text, k)
                                  \/ (text[k] = "\"" /\ EndOfLine(text, k + 1))})
             IN  Matched(SubSeq(text, p2, e - 1))

\* re.search(r"\(([^)]+)\)$", text, MULTILINE | DOTALL): the leftmost "(" whose
\* first following ")" is at least one character away and ends a line.
translation_match(text) ==
    LET close(i) == Find(text, <<")">>, i + 1)
        opens == {i \in 1..Len(text) :
                     /\ text[i] = "("
                     /\ close(i) >= i + 2
                     /\ EndOfLine(text, close(i) + 1)}
    IN  IF opens = {} THEN NoMatch
        ELSE LET i == SetMin(opens)
             IN  Matched(SubSeq(text, i + 1, close(i) - 1))

\* re.findall(r'"([^"]+)"', text): the quoted spans, left to right, not overlapping
RECURSIVE quotes_from(_, _)
quotes_from(text, pos) ==
    LET opens == {i \in pos..Len(text) :
                     /\ text[i] = "\""
                     /\ i + 1 <= Len(text)
                     /\ text[i + 1] # "\""
                     /\ Find(text, <<"\"">>, i + 1) # 0}
    IN  IF opens = {} THEN <<>>
        ELSE LET i == SetMin(opens)
                 j == Find(text, <<"\"">>, i + 1)
             IN  <<SubSeq(text, i + 1, j - 1)>> \o quotes_from(text, j + 1)

quotes_matches(text) == quotes_from(text, 1)

\* re.search(r"[ऀ-ॿ]", quote)
HasDevanagari(quote) == \E i \in 1..Len(quote) : quote[i] \in Devanagari

\* the last quoted span that holds a Devanagari character
quotes_match(text) ==
    LET qs == quotes_matches(text)
        hits == {i \in 1..Len(qs) : HasDevanagari(qs[i])}
    IN  IF hits = {} THEN NoMatch
        ELSE Matched(qs[CHOOSE i \in hits : \A j \in hits : j <= i])

\* one or more whitespace characters at index i: the index after them, 0 when none
Spaces1(s, i) == IF i <= Len(s) /\ s[i] \in Whitespace THEN SkipSpace(s, i) ELSE 0

\* r"here'?s\s+a\s+possible\s+response:?\s*(.*)" matched at index i of s: the
\* index where group(1) starts, 0 when the pattern does not match at i
CueAt(s, i) ==
    IF ~StartsAt(s, <<"h", "e", "r", "e">>, i) THEN 0
    ELSE LET q0 == i + 4
             q1 == IF q0 <= Len(s) /\ s[q0] = "'" THEN q0 + 1 ELSE q0
         IN  IF ~StartsAt(s, <<"s">>, q1) THEN 0
             ELSE LET a == Spaces1(s, q1 + 1)
                  IN  IF a = 0 \/ ~StartsAt(s, <<"a">>, a) THEN 0
                      ELSE LET b == Spaces1(s, a + 1)
                           IN  IF b = 0 \/ ~StartsAt(s, <<"p", "o", "s", "s", "i", "b", "l", "e">>, b) THEN 0
                               ELSE LET c == Spaces1(s, b + 8)
                                    IN  IF c = 0 \/ ~StartsAt(s, <<"r", "e", "s", "p", "o", "n", "s", "e">>, c) THEN 0
                                        ELSE LET d == c + 8
                                                 f == IF d <= Len(s) /\ s[d] = ":" THEN d + 1 ELSE d
                                             IN  SkipSpace(s, f)

\* re.search(possible_response_pattern, text.lower(), IGNORECASE | DOTALL): the
\* group is taken from the lower-cased text
possible_match(text) ==
    LET low == lower(text)
        hits == {i \in 1..Len(low) : CueAt(low, i) # 0}
    IN  IF hits = {} THEN NoMatch
        ELSE Matched(From(low, CueAt(low, SetMin(hits))))

\* re.search(r":\s*(.+)$", text, DOTALL): the leftmost colon that is followed by
\* at least one character; the group runs to the end of the text
last_colon_match(text) ==
    LET i == Find(text, <<":">>, 1)
    IN  IF i = 0 \/ i = Len(text) THEN NoMatch
        ELSE Matched(From(text, i + 1))

\* the cascade with its first two rules in the other order
clean_llm_response_translation_first(response_text) ==
    IF translation_match(response_text).matched
        THEN strip(translation_match(response_text).group)
    ELSE IF saarthi_match(response_text).matched
        THEN strip(saarthi_match(response_text).group)
    ELSE IF quotes_match(response_text).matched
        THEN strip(quotes_match(response_text).group)
    ELSE IF possible_match(response_text).matched
        THEN strip(possible_match(response_text).group)
    ELSE IF last_colon_match(response_text).matched
        THEN strip(last_colon_match(response_text).group)
    ELSE strip(response_text)

\* the cascade that hands back the text as it came when no rule matches
clean_llm_response_untrimmed(response_text) ==
    IF saarthi_match(response_text).matched
        THEN strip(saarthi_match(response_text).group)
    ELSE IF translation_match(response_text).matched
        THEN strip(translation_match(response_text).group)
    ELSE IF quotes_match(response_text).matched
        THEN strip(quotes_match(response_text).group)
    ELSE IF possible_match(response_text).matched
        THEN strip(possible_match(response_text).group)
    ELSE IF last_colon_match(response_text).matched
        THEN strip(last_colon_match(response_text).group)
    ELSE response_text

clean_llm_response(response_text) ==
    IF saarthi_match(response_text).matched
        THEN strip(saarthi_match(response_text).group)
    ELSE IF translation_match(response_text).matched
        THEN strip(translation_match(response_text).group)
    ELSE IF quotes_match(response_text).matched
        THEN strip(quotes_match(response_text).group)
    ELSE IF possible_match(response_text).matched
        THEN strip(possible_match(response_text).group)
    ELSE IF last_colon_match(response_text).matched
        THEN strip(last_colon_match(response_text).group)
    ELSE strip(response_text)

(***************************************************************************)
(* LLMGemini.chat: up to max_retries attempts against the generation       *)
(* service; an attempt raises or returns a text                            *)
(***************************************************************************)

max_retries == 3

EmptyReply == <<"C", "o", "u", "l", "d", " ", "y", "o", "u", " ", "p", "l", "e", "a", "s", "e", " ", "r", "e", "p", "h", "r", "a", "s", "e", " ", "t", "h", "a", "t", "?">>

FailedReply == <<"I", "'", "m", " ", "h", "a", "v", "i", "n", "g", " ", "t", "r", "o", "u", "b", "l", "e", " ", "g", "e", "n", "e", "r", "a", "t", "i", "n", "g", " ", "a", " ", "r", "e", "s", "p", "o", "n", "s", "e", ".", " ", "P", "l", "e", "a", "s", "e", " ", "t", "r", "y", " ", "a", "g", "a", "i", "n", " ", "l", "a", "t", "e", "r", ".">>

\* len(text.split()): the number of whitespace-separated words
WordCount(s) ==
    Cardinality({i \in 1..Len(s) :
                    s[i] \notin Whitespace /\ (i = 1 \/ s[i - 1] \in Whitespace)})

\* what the generation service may do in one attempt (model.generate_content)
GenPlain == <<"T", "h", "e", "e", "k", " ", "h", "a", "i">>

GenMarked == <<"S", "a", "a", "r", "t", "h", "i", ":", " ", "\"", "S", "e", "e", "d", "h", "e", " ", "c", "h", "a", "l", "o", "\"">>

GenBlank == <<" ">>

Generated == {<<>>, GenBlank, GenMarked}

Raises == [raises |-> TRUE, text |-> <<>>]

Returns(text) == [raises |-> FALSE, text |-> text]

Outcomes == {Raises} \cup {Returns(x) : x \in Generated}

\* the attempts of one chat call: outs[a] is what attempt a does if it is made
Attempts == [1..max_retries -> Outcomes]

\* a wrong chat: an empty text is taken for a failure and tried again
retries_without_text(outcome) == outcome.raises \/ outcome.text = <<>>

\* `except Exception as e:` the attempt raised, the loop goes on
retries(outcome) == outcome.raises

\* the return after the loop
exhausted_result ==
    [status |-> "error",
     message |-> "Failed to get chat completion.",
     response |-> FailedReply]

\* an attempt that does not look at the text it got
attempt_result_unchecked(outcome) ==
    [status |-> "success",
     response |-> strip(outcome.text),
     tokens_used |-> WordCount(outcome.text)]

\* the returns of the try block, for an attempt that came back with a text
attempt_result(outcome) ==
    IF outcome.text = <<>>
    THEN [status |-> "error",
          message |-> "Empty response received",
          response |-> EmptyReply]
    ELSE [status |-> "success",
          response |-> strip(outcome.text),
          tokens_used |-> WordCount(outcome.text)]

RECURSIVE chat_attempt(_, _)
chat_attempt(outs, attempt) ==
    IF attempt > max_retries THEN exhausted_result
    ELSE IF retries(outs[attempt]) THEN chat_attempt(outs, attempt + 1)
    ELSE attempt_result(outs[attempt])

chat(outs) == chat_attempt(outs, 1)

\* the number of generate_content calls chat makes
RECURSIVE chat_calls_from(_, _)
chat_calls_from(outs, attempt) ==
    IF attempt > max_retries THEN 0
    ELSE IF retries(outs[attempt]) THEN 1 + chat_calls_from(outs, attempt + 1)
    ELSE 1

chat_calls(outs) == chat_calls_from(outs, 1)

(***************************************************************************)
(* Session store: Message, Session, SessionManager                         *)
(*                                                                         *)
(* The clock counts minutes. Session objects live on a heap and the store  *)
(* maps ids to references, as the Python dict does, so that a caller can   *)
(* hold a Session that is no longer (or not any more the one) in the       *)
(* store. Message.timestamp is written once and read by no operation of    *)
(* the store; it is left out.                                              *)
(***************************************************************************)

\* bounds of the model
MaxTime == 60

TickMinutes == 30

MaxLog == 3

MaxLogConc == 4

\* SessionManager.__init__(session_expiry_minutes=30)
session_expiry_minutes == 30

\* session_id None or "" (both are falsy)
NoId == "None"

\* str(uuid.uuid4()) draws from Uuids; an id already in the store is not drawn
\* again (a 128-bit random id does not collide)
Uuids == {"u1"}

\* the ids a caller may supply: its own and those it was handed back
SessionIds == {"s1"} \cup Uuids

ThreadSeq == <<"t1", "t2">>

Threads == {ThreadSeq[i] : i \in DOMAIN ThreadSeq}

\* the system prompt constant, abbreviated to its first line
DEFAULT_CONTEXT == <<"\n", "Y", "o", "u", " ", "a", "r", "e", " ", "S", "u", "n", "o", " ", "S", "a", "a", "r", "t", "h", "i", "\n">>

CustomPrompt == <<"Y", "o", "u", " ", "a", "r", "e", " ", "a", " ", "t", "o", "u", "r", " ", "g", "u", "i", "d", "e">>

\* system_prompt None or ""
NoPrompt == <<>>

Roles == {"user", "assistant"}

Utterance == <<"h", "i">>

VARIABLES
    now,        \* datetime.now(), in minutes
    sessions,   \* SessionManager.sessions: <<[id, ref], ...>> in insertion order
    heap,       \* the Session objects, by reference
    th,         \* per caller: the call in progress, its locals and its last result
    acked,      \* per id: Session.add_message calls made for id on behalf of the
                \* store since the id's entry was last created, cleared or deleted
    run         \* a function of the code that is run by itself, apart from the
                \* store: its name, its arguments, where it is and its result

vars == <<now, sessions, heap, th, acked, run>>

NoRun == [fn |-> "none"]

\* the store as one value: what the operations below take and give back
World == [sessions |-> sessions, heap |-> heap, acked |-> acked]

Message(role, content) == [role |-> role, content |-> content]

\* Session.__init__
Session(session_id, system_prompt) ==
    [session_id |-> session_id,
     system_prompt |-> system_prompt,
     messages |-> <<>>,
     created_at |-> now,
     last_accessed |-> now]

\* a wrong Session.add_message: every message is filed as a user turn
Session_add_user_message(session, role, content) ==
    [session EXCEPT !.messages = Append(@, [role |-> "user", content |-> content]),
                    !.last_accessed = now]

\* Session.add_message
Session_add_message(session, role, content) ==
    [session EXCEPT !.messages = Append(@, Message(role, content)),
                    !.last_accessed = now]

\* Session.clear_history
Session_clear_history(session) == [session EXCEPT !.messages = <<>>]

\* a wrong is_expired: the age of the session instead of its idle time
is_expired_since_creation(session, expiry_minutes) ==
    session.created_at < now - expiry_minutes

\* Session.is_expired
is_expired(session, expiry_minutes) ==
    session.last_accessed < now - expiry_minutes

\* self.sessions.get(session_id): the reference, 0 for None
sessions_get(store, id) ==
    IF \E i \in DOMAIN store : store[i].id = id
    THEN store[CHOOSE i \in DOMAIN store : store[i].id = id].ref
    ELSE 0

\* self.sessions[session_id] = <ref>: a present key keeps its place
sessions_put(store, id, ref) ==
    IF sessions_get(store, id) # 0
    THEN [i \in DOMAIN store |->
             IF store[i].id = id THEN [id |-> id, ref |-> ref] ELSE store[i]]
    ELSE Append(store, [id |-> id, ref |-> ref])

\* SessionManager.delete_session: `if session_id in self.sessions: del ...`
delete_session(M, session_id) ==
    LET keep(e) == e.id # session_id
    IN  [M EXCEPT !.sessions = SelectSeq(@, keep),
                  !.acked = [@ EXCEPT ![session_id] = 0]]

\* the list comprehension of _clean_expired_sessions: the expired ids, in store order
RECURSIVE expired_ids(_, _)
expired_ids(store, objects) ==
    IF store = <<>> THEN <<>>
    ELSE IF is_expired(objects[Head(store).ref], session_expiry_minutes)
    THEN <<Head(store).id>> \o expired_ids(Tail(store), objects)
    ELSE expired_ids(Tail(store), objects)

\* the loop of _clean_expired_sessions: `for session_id in expired: self.delete_session(session_id)`
RECURSIVE delete_all(_, _)
delete_all(M, expired) ==
    IF expired = <<>> THEN M
    ELSE delete_all(delete_session(M, Head(expired)), Tail(expired))

\* a wrong sweep: it stops after the first deletion
clean_first_expired(M) ==
    LET expired == expired_ids(M.sessions, M.heap)
    IN  IF expired = <<>> THEN M ELSE delete_session(M, Head(expired))

\* SessionManager._clean_expired_sessions
clean_expired_sessions(M) == delete_all(M, expired_ids(M.sessions, M.heap))

\* SessionManager.create_session with the id resolved:
\* `self.sessions[session_id] = Session(session_id, system_prompt)`
create_session(M, session_id, system_prompt) ==
    LET r == Len(M.heap) + 1
        prompt == IF system_prompt = NoPrompt THEN DEFAULT_CONTEXT ELSE system_prompt
    IN  [sessions |-> sessions_put(M.sessions, session_id, r),
         heap |-> Append(M.heap, Session(session_id, prompt)),
         acked |-> [M.acked EXCEPT ![session_id] = 0]]

\* get_session after the sweep: `session = self.sessions.get(session_id);
\* if session: session.last_accessed = datetime.now(); return session`
lookup(M, session_id) ==
    LET r == sessions_get(M.sessions, session_id)
    IN  [M |-> IF r = 0 THEN M
               ELSE [M EXCEPT !.heap[r].last_accessed = now],
         session |-> r]

\* a wrong get_session: the lookup without the sweep
get_session_unswept(M, session_id) == lookup(M, session_id)

\* SessionManager.get_session: the store after the call and the session returned
get_session(M, session_id) == lookup(clean_expired_sessions(M), session_id)

\* session.add_message(role, content) on the object r, made for the id sid
append(M, r, sid, role, content) ==
    [M EXCEPT !.heap[r] = Session_add_message(@, role, content),
              !.acked = IF sid \in DOMAIN @ THEN [@ EXCEPT ![sid] = @ + 1] ELSE @]

NoReturn == [kind |-> "none"]

IdleThread ==
    [pc |-> "idle", op |-> "none", arg_id |-> NoId, session_id |-> NoId,
     role |-> "user", content |-> <<>>, session |-> 0, expired |-> <<>>,
     k |-> "idle", ret |-> NoReturn, swept |-> 0,
     pre_present |-> FALSE, pre_expired |-> FALSE]

Present(id) == sessions_get(sessions, id) # 0

Stored(id) == heap[sessions_get(sessions, id)]

\* the stored session is past the expiry window (stated apart from is_expired)
Stale(id) ==
    Present(id) /\ now - Stored(id).last_accessed > session_expiry_minutes

\* a call of op for the id: the caller's record as the call starts
Call(op, id) ==
    [IdleThread EXCEPT !.op = op, !.arg_id = id, !.session_id = id,
                       !.pre_present = Present(id), !.pre_expired = Stale(id)]

\* the same for a call that starts with get_session, with the number of
\* sessions its sweep deletes
Swept(op, id) ==
    [Call(op, id) EXCEPT !.swept = Len(sessions) - Len(clean_expired_sessions(World).sessions)]

\* the references in use, store first and then the callers' in thread order
RECURSIVE held(_, _, _)
held(threads, i, seen) ==
    IF i > Len(ThreadSeq) THEN <<>>
    ELSE LET r == threads[ThreadSeq[i]].session
         IN  IF r = 0 \/ r \in seen THEN held(threads, i + 1, seen)
             ELSE <<r>> \o held(threads, i + 1, seen \cup {r})

\* the next state: the objects nobody refers to are collected and the others
\* numbered in the order store, callers (a reference has no meaning but identity)
Commit(M, threads) ==
    LET inStore == [i \in DOMAIN M.sessions |-> M.sessions[i].ref]
        live == inStore \o held(threads, 1, {inStore[i] : i \in DOMAIN inStore})
        at(r) == IF r = 0 THEN 0 ELSE CHOOSE i \in DOMAIN live : live[i] = r
    IN  /\ sessions' = [i \in DOMAIN M.sessions |-> [id |-> M.sessions[i].id, ref |-> i]]
        /\ heap' = [i \in DOMAIN live |-> M.heap[live[i]]]
        /\ th' = [t \in Threads |-> [threads[t] EXCEPT !.session = at(@)]]
        /\ acked' = M.acked
        /\ run' = run

Busy == {t \in Threads : th[t].pc # "idle"}

\* the appends a call in flight may still make
Pending(t) ==
    IF th[t].pc = "idle" \/ th[t].op = "get_session" THEN 0
    ELSE IF th[t].op = "add_message" \/ th[t].pc = "gr_chat" THEN 1
    ELSE 2

RECURSIVE SumPending(_)
SumPending(T) ==
    IF T = {} THEN 0
    ELSE LET t == CHOOSE x \in T : TRUE IN Pending(t) + SumPending(T \ {t})

RECURSIVE Stored_messages(_, _)
Stored_messages(objects, r) ==
    IF r > Len(objects) THEN 0
    ELSE Len(objects[r].messages) + Stored_messages(objects, r + 1)

\* bound: at most MaxLog messages in all, those of the calls in flight included
CanGrow(n) == Stored_messages(heap, 1) + n + SumPending(Threads) <= MaxLog

\* the same bound where two callers are at work
CanGrowConc(n) == Stored_messages(heap, 1) + n + SumPending(Threads) <= MaxLogConc

Init ==
    /\ now = 0
    /\ sessions = <<>>
    /\ heap = <<>>
    /\ th = [t \in Threads |-> IdleThread]
    /\ acked = [id \in SessionIds |-> 0]
    /\ run = NoRun

(***************************************************************************)
(* Operations of the store, one call at a time                             *)
(*                                                                         *)
(* The request handlers are coroutines that call the store without an      *)
(* await, so a call runs to its end before the next one starts. The one    *)
(* point of a call that is visible from outside is the generation request  *)
(* of get_response, which leaves the process.                              *)
(***************************************************************************)

\* what a caller keeps of a finished call: the call and its result
Return(rec, value) ==
    [IdleThread EXCEPT !.op = rec.op, !.arg_id = rec.arg_id,
                       !.session_id = rec.session_id, !.ret = value,
                       !.swept = rec.swept,
                       !.pre_present = rec.pre_present,
                       !.pre_expired = rec.pre_expired]

Ids(M) == {M.sessions[i].id : i \in DOMAIN M.sessions}

\* a wrong create_session: the id given is ignored
Resolved_anew(M, session_id) == Uuids \ Ids(M)

\* the ids create_session may end up with: the one given, or a new uuid
Resolved(M, session_id) ==
    IF session_id = NoId THEN Uuids \ Ids(M) ELSE {session_id}

\* time passes between calls; what the callers remembered is of no use later
Tick ==
    /\ Busy = {}
    /\ now + TickMinutes <= MaxTime
    /\ now' = now + TickMinutes
    /\ Commit(World, [t \in Threads |-> IdleThread])

\* SessionManager.create_session(session_id, system_prompt)
CreateSession(t, session_id, system_prompt) ==
    /\ th[t].pc = "idle"
    /\ \E sid \in Resolved(World, session_id) :
          Commit(create_session(World, sid, system_prompt),
                 [th EXCEPT ![t] = Return([Call("create_session", session_id)
                                              EXCEPT !.session_id = sid],
                                          [kind |-> "id", value |-> sid])])
    /\ UNCHANGED now

\* SessionManager.delete_session(session_id)
DeleteSession(t, session_id) ==
    /\ th[t].pc = "idle"
    /\ Commit(delete_session(World, session_id),
              [th EXCEPT ![t] = Return(Call("delete_session", session_id),
                                       [kind |-> "bool", value |-> Present(session_id)])])
    /\ UNCHANGED now

\* SessionManager.get_session(session_id)
GetSession(t, session_id) ==
    /\ th[t].pc = "idle"
    /\ LET g == get_session(World, session_id)
       IN  Commit(g.M,
                  [th EXCEPT ![t] = Return(Swept("get_session", session_id),
                                           [kind |-> "session", found |-> g.session # 0])])
    /\ UNCHANGED now

\* SessionManager.add_message(session_id, role, content)
AddMessage(t, session_id, role, content) ==
    /\ th[t].pc = "idle"
    /\ CanGrow(1)
    /\ LET g == get_session(World, session_id)
           M == IF g.session = 0 THEN g.M
                ELSE append(g.M, g.session, session_id, role, content)
       IN  Commit(M,
                  [th EXCEPT ![t] = Return(Swept("add_message", session_id),
                                           [kind |-> "bool", value |-> g.session # 0,
                                            message |-> Message(role, content)])])
    /\ UNCHANGED now

\* a caller takes the session from get_session and calls Session.clear_history
ClearHistory(t, session_id) ==
    /\ th[t].pc = "idle"
    /\ LET g == get_session(World, session_id)
           M == IF g.session = 0 THEN g.M
                ELSE [g.M EXCEPT !.heap[g.session] = Session_clear_history(@),
                                 !.acked[session_id] = 0]
       IN  Commit(M,
                  [th EXCEPT ![t] = Return(Swept("clear_history", session_id),
                                           [kind |-> "bool", value |-> g.session # 0])])
    /\ UNCHANGED now

\* SessionManager.get_response down to `llm_response = llm.chat(conversation)`
\* with the id create_session would resolve to: the session is found or
\* created and the user turn stored
get_response_begin(M, session_id, sid, user_message) ==
    LET g == get_session(M, session_id)
        h == IF g.session # 0 THEN g
             ELSE get_session(create_session(g.M, sid, NoPrompt), sid)
    IN  [M |-> append(h.M, h.session, sid, "user", user_message),
         session |-> h.session]

\* the ids get_response may go on with: the one given when get_session finds
\* it, else the one create_session returns
Continued(M, session_id) ==
    IF get_session(M, session_id).session # 0 THEN {session_id}
    ELSE Resolved(clean_expired_sessions(M), session_id)

\* get_response up to the generation request, which is then under way
BeginGetResponse(t, session_id, user_message) ==
    /\ th[t].pc = "idle"
    /\ CanGrow(2)
    /\ \E sid \in Continued(World, session_id) :
          LET b == get_response_begin(World, session_id, sid, user_message)
          IN  Commit(b.M,
                     [th EXCEPT ![t] = [Swept("get_response", session_id)
                                           EXCEPT !.pc = "gr_chat",
                                                  !.session_id = sid,
                                                  !.session = b.session,
                                                  !.content = user_message]])
    /\ UNCHANGED now

\* the dict get_response returns: llm_response with the reply cleaned on
\* success, and the session id added
Reply(llm_response, session_id) ==
    IF llm_response.status = "success"
    THEN [status |-> "success",
          response |-> clean_llm_response(llm_response.response),
          tokens_used |-> llm_response.tokens_used,
          session_id |-> session_id]
    ELSE [status |-> llm_response.status,
          message |-> llm_response.message,
          response |-> llm_response.response,
          session_id |-> session_id]

\* what llm.chat can return, over all the ways its attempts can go
ChatResults == {chat(outs) : outs \in Attempts}

\* a wrong get_response: whatever came back goes into the history
stores_any_reply(llm_response) == llm_response.status # "none"

\* `if llm_response.get("status") == "success":` the reply goes into the history
stores_reply(llm_response) == llm_response.status = "success"

\* get_response from the return of llm.chat on: the store afterwards
get_response_end(M, r, session_id, llm_response) ==
    IF stores_reply(llm_response)
    THEN append(M, r, session_id, "assistant", Reply(llm_response, session_id).response)
    ELSE M

\* get_response from the return of llm.chat to its own return
GrReply(t) ==
    /\ th[t].pc = "gr_chat"
    /\ th[t].op = "get_response"
    /\ \E llm_response \in ChatResults :
          Commit(get_response_end(World, th[t].session, th[t].session_id, llm_response),
                 [th EXCEPT ![t] = Return(@, [kind |-> "response",
                                              value |-> Reply(llm_response, th[t].session_id),
                                              raw |-> llm_response])])
    /\ UNCHANGED now

Caller == ThreadSeq[1]

Prompts == {NoPrompt, CustomPrompt}

Next ==
    \/ Tick
    \/ \E id \in SessionIds \cup {NoId}, p \in Prompts : CreateSession(Caller, id, p)
    \/ \E id \in SessionIds : DeleteSession(Caller, id)
    \/ \E id \in SessionIds : GetSession(Caller, id)
    \/ \E id \in SessionIds : AddMessage(Caller, id, "user", Utterance)
    \/ \E id \in SessionIds : ClearHistory(Caller, id)
    \/ \E id \in SessionIds \cup {NoId} : BeginGetResponse(Caller, id, Utterance)
    \/ GrReply(Caller)

Spec == Init /\ [][Next]_vars

\* the store written to by add_message alone, with either role
NextAppend ==
    \/ Tick
    \/ \E id \in SessionIds : CreateSession(Caller, id, NoPrompt)
    \/ \E id \in SessionIds, role \in Roles : AddMessage(Caller, id, role, Utterance)

SpecAppend == Init /\ [][NextAppend]_vars

(***************************************************************************)
(* The request handlers of saarthi/routes.py                               *)
(*                                                                         *)
(* A request carries a query that is not empty (an empty one is refused    *)
(* with 400 before anything happens). The chat handler is given the        *)
(* session id as the context string, or no context; the navigation handler *)
(* a context that holds a session id, a destination, both or neither. The  *)
(* entries for the voice debug log are left out here.                      *)
(***************************************************************************)

FlyoverQuery == <<"I", "s", " ", "t", "h", "e", "r", "e", " ", "a", " ", "f", "l", "y", "o", "v", "e", "r", " ", "a", "h", "e", "a", "d", "?">>

TrafficQuery == <<"A", "n", "y", " ", "t", "r", "a", "f", "f", "i", "c", " ", "j", "a", "m", "?">>

Queries == {FlyoverQuery, TrafficQuery}

\* f"{context_prompt}\nUser query: {request.query}" with no context dict
full_query(query) == <<"\n", "U", "s", "e", "r", " ", "q", "u", "e", "r", "y", ":", " ">> \o query

\* json.dumps(nav_context) for a context that holds a destination
ContextText == <<"N", "a", "v", "i", "g", "a", "t", "i", "o", "n", " ", "C", "o", "n", "t", "e", "x", "t", ":", " ", "{", "\"", "d", "e", "s", "t", "i", "n", "a", "t", "i", "o", "n", "\"", ":", " ", "\"", "D", "e", "l", "h", "i", "\"", "}", "\n">>

\* f"{context_text}Navigation query: {request.query}"
navigation_query(located, query) ==
    (IF located THEN ContextText ELSE <<>>) \o <<"N", "a", "v", "i", "g", "a", "t", "i", "o", "n", " ", "q", "u", "e", "r", "y", ":", " ">> \o query

CouldNotProcess == <<"I", " ", "c", "o", "u", "l", "d", "n", "'", "t", " ", "p", "r", "o", "c", "e", "s", "s", " ", "y", "o", "u", "r", " ", "r", "e", "q", "u", "e", "s", "t", " ", "a", "t", " ", "t", "h", "i", "s", " ", "t", "i", "m", "e", ".">>

TrafficFallback == <<"L", "e", "t", " ", "m", "e", " ", "c", "h", "e", "c", "k", " ", "t", "h", "e", " ", "t", "r", "a", "f", "f", "i", "c", " ", "c", "o", "n", "d", "i", "t", "i", "o", "n", "s", " ", "f", "o", "r", " ", "y", "o", "u", ".", " ", "P", "l", "e", "a", "s", "e", " ", "m", "a", "k", "e", " ", "s", "u", "r", "e", " ", "y", "o", "u", "r", " ", "l", "o", "c", "a", "t", "i", "o", "n", " ", "i", "s", " ", "e", "n", "a", "b", "l", "e", "d", ".">>

DefaultReply == <<"I", "'", "l", "l", " ", "h", "e", "l", "p", " ", "y", "o", "u", " ", "w", "i", "t", "h", " ", "y", "o", "u", "r", " ", "n", "a", "v", "i", "g", "a", "t", "i", "o", "n", " ", "n", "e", "e", "d", "s", ".", " ", "P", "l", "e", "a", "s", "e", " ", "p", "r", "o", "v", "i", "d", "e", " ", "m", "o", "r", "e", " ", "d", "e", "t", "a", "i", "l", "s", " ", "o", "r", " ", "a", "s", "k", " ", "a", " ", "s", "p", "e", "c", "i", "f", "i", "c", " ", "q", "u", "e", "s", "t", "i", "o", "n", ".">>

TrafficKeywords == {<<"t", "r", "a", "f", "f", "i", "c">>, <<"c", "o", "n", "g", "e", "s", "t", "i", "o", "n">>, <<"j", "a", "m">>, <<"b", "u", "s", "y">>}

\* navigation.get_traffic_info hands back a report, measured or not; putting
\* it into the response model may raise
TrafficOutcomes ==
    {[raises |-> TRUE, status |-> "none", traffic_level |-> <<>>, delay_minutes |-> <<>>],
     [raises |-> FALSE, status |-> "success", traffic_level |-> <<"m", "o", "d", "e", "r", "a", "t", "e">>, delay_minutes |-> <<"3">>],
     [raises |-> FALSE, status |-> "error", traffic_level |-> <<"u", "n", "k", "n", "o", "w", "n">>, delay_minutes |-> <<"5", "-", "1", "0">>]}

\* f"Traffic is {...} on your route. Expected delay of {...} minutes."
traffic_reply(traffic_info) ==
    <<"T", "r", "a", "f", "f", "i", "c", " ", "i", "s", " ">> \o traffic_info.traffic_level \o <<" ", "o", "n", " ", "y", "o", "u", "r", " ", "r", "o", "u", "t", "e", ".", " ", "E", "x", "p", "e", "c", "t", "e", "d", " ", "d", "e", "l", "a", "y", " ", "o", "f", " ">> \o traffic_info.delay_minutes \o <<" ", "m", "i", "n", "u", "t", "e", "s", ".">>

\* process_navigation_query after an unsuccessful generation: the rules
rule_based(query, located, traffic_info) ==
    LET query_lower == lower(query)
    IN  IF \E keyword \in TrafficKeywords : Contains(keyword, query_lower)
        THEN IF located /\ ~traffic_info.raises
             THEN [query_type |-> "traffic", response |-> traffic_reply(traffic_info)]
             ELSE [query_type |-> "traffic", response |-> TrafficFallback]
        ELSE [query_type |-> "general_navigation", response |-> DefaultReply]

\* process_llm_query down to the generation request: the id is taken from
\* the context or drawn, the session found or created, and get_response begun
BeginLlmQuery(t, query, context) ==
    /\ th[t].pc = "idle"
    /\ CanGrow(2)
    /\ \E sid \in Resolved(World, context) :
          LET g == get_session(World, sid)
              M == IF g.session # 0 THEN g.M
                   ELSE get_session(create_session(g.M, sid, NoPrompt), sid).M
              b == get_response_begin(M, sid, sid, full_query(query))
          IN  Commit(b.M,
                     [th EXCEPT ![t] = [Swept("llm_query", context)
                                           EXCEPT !.pc = "gr_chat",
                                                  !.session_id = sid,
                                                  !.session = b.session,
                                                  !.content = query]])
    /\ UNCHANGED now

\* the LLMQueryResponse made of what get_response returned; the reply is
\* cleaned once more, and the branch for a change of destination looks for a
\* capitalised phrase in lower-cased text, which is never there
LLMQueryResponse(response) ==
    IF response.status = "success"
    THEN [response |-> clean_llm_response(response.response),
          status |-> "success",
          session_id |-> response.session_id]
    ELSE [response |-> CouldNotProcess,
          status |-> "error",
          session_id |-> response.session_id]

\* process_llm_query from the return of llm.chat to the response, for one
\* value llm.chat returned
LlmReplyWith(t, llm_response) ==
    /\ th[t].pc = "gr_chat"
    /\ th[t].op = "llm_query"
    /\ Commit(get_response_end(World, th[t].session, th[t].session_id, llm_response),
              [th EXCEPT ![t] =
                  Return(@, [kind |-> "llm_query",
                             query |-> th[t].content,
                             value |-> LLMQueryResponse(Reply(llm_response, th[t].session_id)),
                             raw |-> llm_response])])
    /\ UNCHANGED now

\* process_llm_query from the return of llm.chat to the response
LlmReply(t) == \E llm_response \in ChatResults : LlmReplyWith(t, llm_response)

\* process_navigation_query down to the generation request: through
\* get_response when the context holds a session id, else generate_reply
\* with no session
BeginNavigationQuery(t, query, session_id, located) ==
    /\ th[t].pc = "idle"
    /\ CanGrow(2)
    /\ IF session_id # NoId
       THEN LET b == get_response_begin(World, session_id, session_id,
                                        navigation_query(located, query))
            IN  Commit(b.M,
                       [th EXCEPT ![t] = [Swept("nav_query", session_id)
                                             EXCEPT !.pc = "gr_chat",
                                                    !.session = b.session,
                                                    !.role = IF located THEN "located" ELSE "user",
                                                    !.content = query]])
       ELSE Commit(World,
                   [th EXCEPT ![t] = [Call("nav_query", session_id)
                                         EXCEPT !.pc = "gr_chat",
                                                !.role = IF located THEN "located" ELSE "user",
                                                !.content = query]])
    /\ UNCHANGED now

\* the NavigationQueryResponse: the reply of the generation when it
\* succeeded (cleaned only on the session path), else the rules
NavigationQueryResponse(response, query, located, traffic_info) ==
    IF response.status = "success"
    THEN [query_type |-> "llm_processed", response |-> response.response]
    ELSE rule_based(query, located, traffic_info)

\* process_navigation_query from the return of llm.chat to the response
NavReply(t) ==
    /\ th[t].pc = "gr_chat"
    /\ th[t].op = "nav_query"
    /\ \E llm_response \in ChatResults, traffic_info \in TrafficOutcomes :
          LET response == IF th[t].session # 0
                          THEN Reply(llm_response, th[t].session_id)
                          ELSE llm_response
              M == IF th[t].session # 0
                   THEN get_response_end(World, th[t].session, th[t].session_id, llm_response)
                   ELSE World
          IN  Commit(M,
                     [th EXCEPT ![t] =
                         Return(@, [kind |-> "nav_query",
                                    query |-> th[t].content,
                                    value |-> NavigationQueryResponse(response, th[t].content,
                                                                      th[t].role = "located",
                                                                      traffic_info),
                                    raw |-> llm_response])])
    /\ UNCHANGED now

NextRoutes ==
    \/ Tick
    \/ \E context \in {NoId, "s1"} : BeginLlmQuery(Caller, FlyoverQuery, context)
    \/ LlmReply(Caller)
    \/ \E query \in Queries, id \in {NoId, "s1"}, located \in BOOLEAN :
          BeginNavigationQuery(Caller, query, id, located)
    \/ NavReply(Caller)

SpecRoutes == Init /\ [][NextRoutes]_vars

(***************************************************************************)
(* The same operations statement by statement, for callers on threads      *)
(*                                                                         *)
(* SessionManager takes no lock. When the store is driven from several     *)
(* threads a caller can be preempted between any two statements; a single  *)
(* dict or list operation is atomic under the interpreter lock. The list   *)
(* comprehension of the sweep is taken as one step.                        *)
(***************************************************************************)

\* entry of get_session(session_id), to continue at k when it returns
Enter(rec, k) == [rec EXCEPT !.pc = "gs_sweep", !.k = k]

StartGetSession(t, session_id) ==
    /\ th[t].pc = "idle"
    /\ Commit(World, [th EXCEPT ![t] = Enter(Call("get_session", session_id), "idle")])
    /\ UNCHANGED now

\* `expired = [sid for sid, session in self.sessions.items() if session.is_expired(...)]`
GsSweep(t) ==
    /\ th[t].pc = "gs_sweep"
    /\ Commit(World, [th EXCEPT ![t].expired = expired_ids(sessions, heap),
                                ![t].pc = "gs_purge"])
    /\ UNCHANGED now

\* one turn of `for session_id in expired: self.delete_session(session_id)`
GsPurge(t) ==
    /\ th[t].pc = "gs_purge"
    /\ IF th[t].expired = <<>>
       THEN Commit(World, [th EXCEPT ![t].pc = "gs_lookup"])
       ELSE Commit(delete_session(World, Head(th[t].expired)),
                   [th EXCEPT ![t].expired = Tail(@),
                              ![t].swept = IF Present(Head(th[t].expired)) THEN @ + 1 ELSE @])
    /\ UNCHANGED now

\* `session = self.sessions.get(session_id); if session: ...; return session`
GsLookup(t) ==
    /\ th[t].pc = "gs_lookup"
    /\ LET g == lookup(World, th[t].session_id)
       IN  Commit(g.M,
                  [th EXCEPT ![t] =
                      IF th[t].k = "idle"
                      THEN Return(@, [kind |-> "session", found |-> g.session # 0])
                      ELSE [@ EXCEPT !.session = g.session, !.pc = th[t].k]])
    /\ UNCHANGED now

StartAddMessage(t, session_id, role, content) ==
    /\ th[t].pc = "idle"
    /\ CanGrowConc(1)
    /\ Commit(World, [th EXCEPT ![t] = Enter([Call("add_message", session_id)
                                                 EXCEPT !.role = role, !.content = content],
                                             "am_append")])
    /\ UNCHANGED now

\* `if not session: return False`, else `session.add_message(role, content); return True`
AmAppend(t) ==
    /\ th[t].pc = "am_append"
    /\ LET M == IF th[t].session = 0 THEN World
                ELSE append(World, th[t].session, th[t].session_id,
                            th[t].role, th[t].content)
       IN  Commit(M, [th EXCEPT ![t] = Return(@, [kind |-> "bool", value |-> th[t].session # 0,
                                                  message |-> Message(th[t].role, th[t].content)])])
    /\ UNCHANGED now

StartGetResponse(t, session_id, user_message) ==
    /\ th[t].pc = "idle"
    /\ CanGrowConc(2)
    /\ Commit(World, [th EXCEPT ![t] = Enter([Call("get_response", session_id)
                                                 EXCEPT !.content = user_message],
                                             "gr_check")])
    /\ UNCHANGED now

\* `if not session: session_id = self.create_session(session_id)` and the
\* entry of the second get_session
GrCheck(t) ==
    /\ th[t].pc = "gr_check"
    /\ IF th[t].session # 0
       THEN Commit(World, [th EXCEPT ![t].pc = "gr_user"])
       ELSE \E sid \in Resolved(World, th[t].session_id) :
               Commit(create_session(World, sid, NoPrompt),
                      [th EXCEPT ![t] = Enter([@ EXCEPT !.session_id = sid], "gr_user")])
    /\ UNCHANGED now

\* `session.add_message("user", user_message)`, the prompt, the request sent;
\* on None the attribute access raises
GrUser(t) ==
    /\ th[t].pc = "gr_user"
    /\ IF th[t].session = 0
       THEN Commit(World, [th EXCEPT ![t] = Return(@, [kind |-> "raised"])])
       ELSE Commit(append(World, th[t].session, th[t].session_id, "user", th[t].content),
                   [th EXCEPT ![t].pc = "gr_chat"])
    /\ UNCHANGED now

ConcIds == {"s1"}

NextConc ==
    \/ Tick
    \/ \E t \in Threads, id \in ConcIds : StartGetSession(t, id)
    \/ \E t \in Threads : GsSweep(t)
    \/ \E t \in Threads : GsPurge(t)
    \/ \E t \in Threads : GsLookup(t)
    \/ \E t \in Threads, id \in ConcIds : StartAddMessage(t, id, "user", Utterance)
    \/ \E t \in Threads : AmAppend(t)
    \/ \E t \in Threads, id \in ConcIds : StartGetResponse(t, id, Utterance)
    \/ \E t \in Threads : GrCheck(t)
    \/ \E t \in Threads : GrUser(t)
    \/ \E t \in Threads : GrReply(t)

SpecConc == Init /\ [][NextConc]_vars

(***************************************************************************)
(* Properties of the store                                                 *)
(***************************************************************************)

IsPrefix(a, b) == Len(a) <= Len(b) /\ SubSeq(b, 1, Len(a)) = a

Last(a) == a[Len(a)]

UserTurn(c) == Message("user", c.content)

\* C1: get_session never returns an expired session: when the stored
\* session of the id was idle for longer than the expiry window as the call
\* was made, the call returns None and the session is gone from the store.
C1_ExpiredNeverReturned ==
    \A t \in Threads :
        (th[t].pc = "idle" /\ th[t].op = "get_session" /\ th[t].pre_expired)
            => (~th[t].ret.found /\ ~Present(th[t].arg_id))

C1_ExpiredLookup ==
    /\ th[Caller].pc = "idle"
    /\ th[Caller].op = "get_session"
    /\ th[Caller].pre_expired
    /\ ~th[Caller].ret.found

\* C2: expiry counts from the last access. A session that is within the
\* window when get_session, add_message or get_response runs stays in the
\* store, whatever its age; a get_session or add_message that finds the
\* session sets last_accessed to the current time; and get_session does not
\* find a session that was never touched since its creation more than the
\* window ago.
C2_ExpiryFromLastAccess ==
    [][\A id \in SessionIds :
          LET c == th'[Caller]
          IN  /\ (/\ Present(id)
                  /\ ~Stale(id)
                  /\ c.op \in {"get_session", "add_message", "get_response"})
                    => (Present(id)' /\ Stored(id)'.created_at = Stored(id).created_at)
              /\ (c.op = "get_session" /\ c.arg_id = id /\ c.ret.found)
                    => (Present(id)' /\ Stored(id)'.last_accessed = now')
              /\ (c.op = "add_message" /\ c.arg_id = id /\ c.ret.value)
                    => (Present(id)' /\ Stored(id)'.last_accessed = now')
              /\ (/\ c.op = "get_session"
                  /\ c.arg_id = id
                  /\ Present(id)
                  /\ Stored(id).last_accessed = Stored(id).created_at
                  /\ now - Stored(id).created_at > session_expiry_minutes)
                    => ~c.ret.found]_vars

C2_OldSessionStillServed ==
    /\ th[Caller].pc = "idle"
    /\ th[Caller].op = "get_session"
    /\ th[Caller].ret.found
    /\ now - Stored(th[Caller].arg_id).created_at > session_expiry_minutes

\* C3: every get_session, whatever id it is given, leaves no expired session
\* in the store; so, as long as get_session keeps being called, a session
\* that has expired is purged.
C3_SweepOnEveryGet ==
    /\ [](\A t \in Threads :
             (th[t].pc = "idle" /\ th[t].op = "get_session")
                 => \A id \in SessionIds : ~Stale(id))
    /\ ([]<><<\E id \in SessionIds : GetSession(Caller, id)>>_vars
           => \A id \in SessionIds : (Stale(id) ~> ~Stale(id)))

C3_SweptWhileServingAnother ==
    /\ th[Caller].pc = "idle"
    /\ th[Caller].op = "get_session"
    /\ th[Caller].swept >= 1
    /\ th[Caller].ret.found

\* C4: the message log of an id that stays in the store only grows: over
\* every operation the log before is a prefix of the log after.
C4_AppendOnly ==
    [][\A id \in SessionIds :
          (Present(id) /\ Present(id)')
              => IsPrefix(Stored(id).messages, Stored(id)'.messages)]_vars

\* C5: no append is lost: once no call is in progress, the log of a stored
\* session holds every message appended for its id.
C5_NoLostAppend ==
    Busy = {} => \A id \in SessionIds :
                     Present(id) => Len(Stored(id).messages) = acked[id]

\* C6: a sweep does not evict a live session: a session that is within the
\* expiry window when the sweep comes to delete its id is still in the store
\* after that deletion.
C6_SweepKeepsLive ==
    [][\A t \in Threads :
          (/\ th[t].pc = "gs_purge"
           /\ th[t].expired # <<>>
           /\ th'[t].expired # th[t].expired
           /\ Present(Head(th[t].expired))
           /\ ~Stale(Head(th[t].expired)))
              => Present(Head(th[t].expired))']_vars

\* C7: get_response stores the user turn before the generation request is
\* made, so that the log is then the earlier log (empty for a new or expired
\* session) followed by the user turn; when generation ends in an error the
\* log stays as it is, and when it succeeds the log gains the cleaned reply
\* as an assistant turn, the reply that is also returned.
C7_UserTurnBeforeGeneration ==
    [][\A sid \in SessionIds :
          LET b == th[Caller]
              c == th'[Caller]
          IN  c.session_id = sid =>
                /\ (b.pc = "idle" /\ c.pc = "gr_chat")
                      => /\ Present(sid)'
                         /\ Stored(sid)'.messages =
                               Append(IF c.pre_present /\ ~c.pre_expired
                                      THEN Stored(sid).messages ELSE <<>>,
                                      UserTurn(c))
                /\ (b.pc = "gr_chat" /\ c.pc = "idle")
                      => /\ Present(sid)'
                         /\ IF c.ret.raw.status = "success"
                            THEN /\ c.ret.value.status = "success"
                                 /\ c.ret.value.response = clean_llm_response(c.ret.raw.response)
                                 /\ Stored(sid)'.messages =
                                       Append(Stored(sid).messages,
                                              Message("assistant", c.ret.value.response))
                            ELSE /\ c.ret.value.status = "error"
                                 /\ Stored(sid)'.messages = Stored(sid).messages]_vars

C7_FailedTurnKeepsUserTurn ==
    /\ th[Caller].pc = "idle"
    /\ th[Caller].op = "get_response"
    /\ th[Caller].ret.value.status = "error"
    /\ Stored(th[Caller].session_id).messages
          = <<Message("user", Utterance), Message("user", Utterance)>>

\* C9: get_response never fails on the id it is given. The session that
\* takes the user turn is stored under the id given, or under a new id when
\* none is given; for an id that is unknown or expired it is a session made
\* at this call whose history is the user turn alone; and the result, in
\* success and in error, carries the id of that session.
C9_SessionAlwaysResolved ==
    \A t \in Threads :
        LET c == th[t]
        IN  c.op = "get_response" =>
              /\ c.session_id # NoId
              /\ Present(c.session_id)
              /\ c.arg_id # NoId => c.session_id = c.arg_id
              /\ c.arg_id = NoId => c.session_id \in Uuids
              /\ (c.pc = "gr_chat" /\ (~c.pre_present \/ c.pre_expired))
                    => /\ Stored(c.session_id).messages = <<UserTurn(c)>>
                       /\ Stored(c.session_id).created_at = now
              /\ c.pc = "gr_chat" => Last(Stored(c.session_id).messages) = UserTurn(c)
              /\ c.pc = "idle"
                    => /\ c.ret.kind = "response"
                       /\ c.ret.value.session_id = c.session_id

C9_ExpiredIdServed ==
    /\ th[Caller].pc = "idle"
    /\ th[Caller].op = "get_response"
    /\ th[Caller].pre_expired
    /\ th[Caller].ret.value.status = "error"
    /\ th[Caller].ret.value.session_id = th[Caller].arg_id

\* C10: create_session with an id that is in the store and not expired is
\* idempotent: log, system prompt and creation time stay as they are.
C10_CreateIdempotent ==
    [][\A id \in SessionIds :
          (/\ Present(id)
           /\ ~Stale(id)
           /\ th'[Caller].op = "create_session"
           /\ th'[Caller].arg_id = id)
              => /\ Present(id)'
                 /\ Stored(id)'.messages = Stored(id).messages
                 /\ Stored(id)'.system_prompt = Stored(id).system_prompt
                 /\ Stored(id)'.created_at = Stored(id).created_at]_vars

Flyover == <<"f", "l", "y", "o", "v", "e", "r">>

\* C8: when the generation fails the handlers answer from the rules with
\* status fallback: for "Is there a flyover ahead?" without a session id the
\* chat handler answers with status fallback, the navigation handler with
\* the category route_feature, and both with a reply that has the word
\* flyover in it.
C8_FallbackOnFailure ==
    \A t \in Threads :
        LET c == th[t]
        IN  (/\ c.pc = "idle"
             /\ c.op \in {"llm_query", "nav_query"}
             /\ c.arg_id = NoId
             /\ c.ret.query = FlyoverQuery
             /\ c.ret.raw.status # "success")
                => /\ Contains(Flyover, lower(c.ret.value.response))
                   /\ c.op = "llm_query" => c.ret.value.status = "fallback"
                   /\ c.op = "nav_query" => c.ret.value.query_type = "route_feature"

\* the sessions in the store after the step were there before it, and but
\* for the session of id each has the log it had
OtherLogsKept(id) ==
    \A other \in SessionIds \ {id} :
        Present(other)' => (Present(other) /\ Stored(other)'.messages = Stored(other).messages)

\* C11: add_message returns False and leaves every log as it is when the id
\* is not in the store or its session has expired (the expired sessions are
\* swept, no other session changes); otherwise it returns True, the log of
\* the id gains the message (role, content) at its end and nothing else, and
\* the logs of the other sessions stay as they are.
C11_AddMessageOutcome ==
    [][\A id \in SessionIds :
          LET c == th'[Caller]
          IN  (c.op = "add_message" /\ c.arg_id = id) =>
                IF Present(id) /\ ~Stale(id)
                THEN /\ c.ret.value
                     /\ Present(id)'
                     /\ Stored(id)'.messages = Append(Stored(id).messages, c.ret.message)
                     /\ OtherLogsKept(id)
                ELSE /\ ~c.ret.value
                     /\ ~Present(id)'
                     /\ OtherLogsKept(id)]_vars

C11_AssistantTurnAppended ==
    /\ th[Caller].pc = "idle"
    /\ th[Caller].op = "add_message"
    /\ th[Caller].ret.value
    /\ th[Caller].ret.message.role = "assistant"
    /\ Len(Stored(th[Caller].arg_id).messages) = 2
    /\ Last(Stored(th[Caller].arg_id).messages) = th[Caller].ret.message
    /\ \E other \in SessionIds \ {th[Caller].arg_id} :
          Present(other) /\ Len(Stored(other).messages) = 1

(***************************************************************************)
(* LLMGemini.chat attempt by attempt                                       *)
(*                                                                         *)
(* One turn of `for attempt in range(max_retries)` is one step: the        *)
(* request to the service, and what the try block or the except clause     *)
(* does with its outcome. The sleep in the except clause ends by itself.   *)
(***************************************************************************)

StoreKept == UNCHANGED <<now, sessions, heap, th, acked>>

\* chat(prompt) is called; outs[a] is what the service does at attempt a
ChatCall(outs) ==
    /\ run.fn = "none"
    /\ run' = [fn |-> "chat", pc |-> "loop", outs |-> outs,
               attempt |-> 1, calls |-> 0, result |-> NoReturn]
    /\ StoreKept

\* one turn of the loop
ChatAttempt ==
    /\ run.fn = "chat"
    /\ run.pc = "loop"
    /\ run.attempt <= max_retries
    /\ LET outcome == run.outs[run.attempt]
       IN  run' = IF retries(outcome)
                  THEN [run EXCEPT !.calls = @ + 1, !.attempt = @ + 1]
                  ELSE [run EXCEPT !.calls = @ + 1, !.pc = "done",
                                   !.result = attempt_result(outcome)]
    /\ StoreKept

\* the loop is over: the return after it
ChatExhausted ==
    /\ run.fn = "chat"
    /\ run.pc = "loop"
    /\ run.attempt > max_retries
    /\ run' = [run EXCEPT !.pc = "done",
                          !.result = exhausted_result]
    /\ StoreKept

\* the caller has the result
ChatReturned ==
    /\ run.fn = "chat"
    /\ run.pc = "done"
    /\ run' = NoRun
    /\ StoreKept

NextChat ==
    \/ \E outs \in Attempts : ChatCall(outs)
    \/ ChatAttempt
    \/ ChatExhausted
    \/ ChatReturned

SpecChat == Init /\ [][NextChat]_vars /\ WF_vars(ChatAttempt \/ ChatExhausted)

AllRaise(outs) == \A a \in 1..3 : outs[a].raises

\* C12: chat ends with a result and does not raise. It asks the service at
\* most 3 times, asks again only when the attempt before raised, stops at
\* the first attempt that returns, and when all attempts raise its result,
\* after exactly 3 requests, is the error "Failed to get chat completion.".
C12_ChatTerminates ==
    /\ [](run.fn = "chat" =>
            /\ run.calls <= 3
            /\ \A a \in 1..(run.calls - 1) : run.outs[a].raises
            /\ run.pc = "loop" => \A a \in 1..run.calls : run.outs[a].raises
            /\ run.pc = "done" =>
                  /\ run.result.status \in {"success", "error"}
                  /\ run.result = chat(run.outs)
                  /\ run.calls = chat_calls(run.outs)
                  /\ AllRaise(run.outs) =>
                        /\ run.calls = 3
                        /\ run.result.status = "error"
                        /\ run.result.message = "Failed to get chat completion."
                  /\ ~AllRaise(run.outs) =>
                        /\ run.calls >= 1
                        /\ ~run.outs[run.calls].raises)
    /\ ((run.fn = "chat") ~> (run.fn = "chat" /\ run.pc = "done"))

C12_AllAttemptsRaised ==
    /\ run.fn = "chat"
    /\ run.pc = "done"
    /\ AllRaise(run.outs)
    /\ run.calls = 3
    /\ run.result = exhausted_result

(***************************************************************************)
(* A turn of get_response with the attempts of its chat call               *)
(***************************************************************************)

\* `llm_response = llm.chat(conversation)`: get_response calls chat
GrChatCall(t, outs) ==
    /\ th[t].pc = "gr_chat"
    /\ th[t].op = "get_response"
    /\ ChatCall(outs)

\* get_response goes on with what chat returned
GrChatReply(t) ==
    /\ th[t].pc = "gr_chat"
    /\ th[t].op = "get_response"
    /\ run.fn = "chat"
    /\ run.pc = "done"
    /\ Commit(get_response_end(World, th[t].session, th[t].session_id, run.result),
              [th EXCEPT ![t] = Return(@, [kind |-> "response",
                                           value |-> Reply(run.result, th[t].session_id),
                                           raw |-> run.result])])
    /\ UNCHANGED now

\* the turn is over: nothing is kept of the chat call
TurnOver(t) ==
    /\ th[t].pc = "idle"
    /\ ChatReturned

NextTurn ==
    \/ \E id \in ConcIds : BeginGetResponse(Caller, id, Utterance)
    \/ \E outs \in Attempts : GrChatCall(Caller, outs)
    \/ ChatAttempt
    \/ ChatExhausted
    \/ GrChatReply(Caller)
    \/ TurnOver(Caller)

SpecTurn == Init /\ [][NextTurn]_vars

\* the attempt chat ended with came back with an empty text
EndedEmpty ==
    /\ run.fn = "chat"
    /\ run.pc = "done"
    /\ run.calls >= 1
    /\ run.calls <= max_retries
    /\ ~run.outs[run.calls].raises
    /\ run.outs[run.calls].text = <<>>

\* C13: an empty text from the service ends chat at that attempt with the
\* error "Empty response received": no request follows it (one request in
\* all when the first attempt comes back empty), and get_response, given
\* this result, leaves the log as it was after the user turn.
C13_EmptyTextIsAnError ==
    [][/\ \A a \in 1..max_retries :
             (/\ run.fn = "chat"
              /\ run.pc = "loop"
              /\ run.attempt = a
              /\ ~run.outs[a].raises
              /\ run.outs[a].text = <<>>
              /\ run' # run)
                 => /\ run'.pc = "done"
                    /\ run'.calls = a
                    /\ run'.result.status = "error"
                    /\ run'.result.message = "Empty response received"
                    /\ (\A b \in 1..(a - 1) : run.outs[b].raises)
       /\ \A sid \in SessionIds :
             (/\ EndedEmpty
              /\ th[Caller].pc = "gr_chat"
              /\ th[Caller].session_id = sid
              /\ th'[Caller].pc = "idle")
                 => /\ Present(sid)'
                    /\ Stored(sid)'.messages = Stored(sid).messages
                    /\ Last(Stored(sid)'.messages) = Message("user", Utterance)
                    /\ th'[Caller].ret.value.status = "error"
                    /\ th'[Caller].ret.value.message = "Empty response received"]_vars

C13_EmptyFirstAttempt ==
    /\ EndedEmpty
    /\ run.calls = 1
    /\ th[Caller].pc = "idle"
    /\ th[Caller].op = "get_response"
    /\ th[Caller].ret.value.message = "Empty response received"
    /\ Stored(th[Caller].session_id).messages = <<Message("user", Utterance)>>

(***************************************************************************)
(* NavigationHandler.get_traffic_info (modules/navigation.py)              *)
(***************************************************************************)

MaxDuration == 30

\* the sample of test_get_traffic_info_levels: 1200 s in traffic, 1000 s without
ExampleTraffic == 1200

ExampleNormal == 1000

\* durations in seconds, as the directions service reports them
Durations == (0..MaxDuration) \cup {ExampleNormal, ExampleTraffic}

NormalDurations == Durations \cup {-1}

\* int(x / y) of Python for y > 0: the quotient without its fractional part
int_div(x, y) ==
    IF x >= 0 THEN x \div y ELSE -((-x) \div y)

\* `traffic_duration / normal_duration if normal_duration > 0 else 1`, kept
\* as a fraction.  The quotient of two integers of this size and the
\* literals 1.1, 1.3, 1.5 are doubles rounded from the same reals, so the
\* comparisons of the code order them as the fractions are ordered.
traffic_ratio(traffic_duration, normal_duration) ==
    IF normal_duration > 0
    THEN [num |-> traffic_duration, den |-> normal_duration]
    ELSE [num |-> 1, den |-> 1]

\* ratio <= tenths / 10
ratio_at_most(ratio, tenths) ==
    10 * ratio.num <= tenths * ratio.den

\* `traffic_ratio < 1.1`, `< 1.3`, `< 1.5`: ratio < tenths / 10
ratio_below(ratio, tenths) ==
    10 * ratio.num < tenths * ratio.den

traffic_level(traffic_duration, normal_duration) ==
    LET ratio == traffic_ratio(traffic_duration, normal_duration)
    IN  IF ratio_below(ratio, 11) THEN "light"
        ELSE IF ratio_below(ratio, 13) THEN "moderate"
        ELSE IF ratio_below(ratio, 15) THEN "heavy"
        ELSE "severe"

\* `traffic_duration > normal_duration * 1.1`
has_traffic(traffic_duration, normal_duration) ==
    10 * traffic_duration > 11 * normal_duration

\* `int((traffic_duration - normal_duration) / 60)`
delay_minutes(traffic_duration, normal_duration) ==
    int_div(traffic_duration - normal_duration, 60)

\* the "text" the service gives with a duration
DurationText(d) == <<"text", d>>

measured_traffic(traffic_duration, normal_duration) ==
    [status |-> "success",
     normal_duration |-> DurationText(normal_duration),
     traffic_duration |-> DurationText(traffic_duration),
     has_traffic |-> has_traffic(traffic_duration, normal_duration),
     traffic_level |-> traffic_level(traffic_duration, normal_duration),
     delay_minutes |-> delay_minutes(traffic_duration, normal_duration)]

_generate_mock_traffic ==
    [status |-> "success",
     normal_duration |-> <<"1", "5", " ", "m", "i", "n", "s">>,
     traffic_duration |-> <<"2", "0", " ", "m", "i", "n", "s">>,
     has_traffic |-> TRUE,
     traffic_level |-> "moderate",
     delay_minutes |-> 5]

\* the result of the except branch of get_traffic_info
traffic_error(e) ==
    [status |-> "error",
     error |-> e,
     has_traffic |-> FALSE,
     traffic_level |-> "unknown"]

NotAsked == [kind |-> "none", value |-> 0, normal |-> 0]

\* what a directions request does: it raises, returns no route, returns a
\* route whose leg has no duration_in_traffic, or a route with its durations
LookupRaises == [kind |-> "raises", value |-> 0, normal |-> 0]

NoRoute == [kind |-> "empty", value |-> 0, normal |-> 0]

UntimedRoute == [kind |-> "untimed", value |-> 0, normal |-> 0]

\* a route of the client: its durations are read when they are extracted
FoundRoute == [kind |-> "route", value |-> 0, normal |-> 0]

\* the leg of the direct request, with both durations
Leg(w, n) == [kind |-> "route", value |-> w, normal |-> n]

WithTrafficOutcomes == {LookupRaises, NoRoute, UntimedRoute, FoundRoute}

WithoutTrafficOutcomes == {LookupRaises, NoRoute, FoundRoute}

DirectOutcomes ==
    {LookupRaises, NoRoute, UntimedRoute}
        \cup {Leg(w, n) : w \in Durations, n \in NormalDurations}

\* NavigationHandler(): an API key or none, a client or none
Handlers ==
    {[api_key |-> FALSE, client |-> FALSE],
     [api_key |-> TRUE, client |-> FALSE],
     [api_key |-> TRUE, client |-> TRUE]}

\* get_traffic_info(origin, destination) is called on a handler
TrafficCall(handler) ==
    /\ run.fn = "none"
    /\ run' = [fn |-> "traffic",
               pc |-> IF handler.client THEN "with_traffic" ELSE "direct",
               api_key |-> handler.api_key,
               client |-> handler.client,
               with_traffic |-> NotAsked,
               without_traffic |-> NotAsked,
               direct |-> NotAsked,
               measured |-> FALSE,
               traffic_duration |-> 0,
               normal_duration |-> 0,
               result |-> NoReturn]
    /\ StoreKept

\* `with_traffic = self.client.directions(..., departure_time=...)`
WithTraffic(o) ==
    /\ run.fn = "traffic"
    /\ run.pc = "with_traffic"
    /\ run' = IF o.kind = "raises"
              THEN [run EXCEPT !.with_traffic = o, !.pc = "done",
                               !.result = traffic_error("lookup")]
              ELSE [run EXCEPT !.with_traffic = o, !.pc = "without_traffic"]
    /\ StoreKept

\* `without_traffic = self.client.directions(...)`
WithoutTraffic(o) ==
    /\ run.fn = "traffic"
    /\ run.pc = "without_traffic"
    /\ run' = IF o.kind = "raises"
              THEN [run EXCEPT !.without_traffic = o, !.pc = "done",
                               !.result = traffic_error("lookup")]
              ELSE [run EXCEPT !.without_traffic = o, !.pc = "extract"]
    /\ StoreKept

\* `if with_traffic and without_traffic:` and the block under it; w and n
\* are the values found in the two routes
ExtractDurations(w, n) ==
    /\ run.fn = "traffic"
    /\ run.pc = "extract"
    /\ run' = IF run.with_traffic.kind = "empty" \/ run.without_traffic.kind = "empty"
              THEN [run EXCEPT !.pc = "direct"]
              ELSE IF run.with_traffic.kind = "untimed"
              THEN [run EXCEPT !.pc = "done",
                               !.result = traffic_error("duration_in_traffic")]
              ELSE [run EXCEPT !.pc = "done",
                               !.measured = TRUE,
                               !.traffic_duration = w,
                               !.normal_duration = n,
                               !.result = measured_traffic(w, n)]
    /\ StoreKept

\* `return self._direct_traffic_call(origin, destination)`
DirectTrafficCall(o) ==
    /\ run.fn = "traffic"
    /\ run.pc = "direct"
    /\ run' = IF ~run.api_key
              THEN [run EXCEPT !.pc = "done", !.result = _generate_mock_traffic]
              ELSE IF o.kind = "route"
              THEN [run EXCEPT !.pc = "done",
                               !.direct = o,
                               !.measured = TRUE,
                               !.traffic_duration = o.value,
                               !.normal_duration = o.normal,
                               !.result = measured_traffic(o.value, o.normal)]
              ELSE [run EXCEPT !.pc = "done",
                               !.direct = o,
                               !.result = _generate_mock_traffic]
    /\ StoreKept

TrafficReturned ==
    /\ run.fn = "traffic"
    /\ run.pc = "done"
    /\ run' = NoRun
    /\ StoreKept

NextTraffic ==
    \/ \E handler \in Handlers : TrafficCall(handler)
    \/ \E o \in WithTrafficOutcomes : WithTraffic(o)
    \/ \E o \in WithoutTrafficOutcomes : WithoutTraffic(o)
    \/ \E w \in Durations, n \in NormalDurations : ExtractDurations(w, n)
    \/ \E o \in DirectOutcomes : DirectTrafficCall(o)
    \/ TrafficReturned

SpecTraffic == Init /\ [][NextTraffic]_vars

\* get_traffic_info has returned a result computed from two durations
Measured ==
    /\ run.fn = "traffic"
    /\ run.pc = "done"
    /\ run.measured

LevelRank(level) ==
    CASE level = "light" -> 1
      [] level = "moderate" -> 2
      [] level = "heavy" -> 3
      [] level = "severe" -> 4

\* C14: with w >= 0 and n > 0 the level is light when w/n < 1.1, moderate
\* when 1.1 <= w/n < 1.3, heavy when 1.3 <= w/n < 1.5 and severe when
\* w/n >= 1.5, so a sample with a larger w/n never has a lower level; with
\* n <= 0 the level is light.
C14_TrafficLevelBands ==
    Measured =>
        LET w == run.traffic_duration
            n == run.normal_duration
            level == run.result.traffic_level
        IN  /\ n > 0 =>
                 /\ (level = "light") <=> (10 * w < 11 * n)
                 /\ (level = "moderate") <=> (11 * n <= 10 * w /\ 10 * w < 13 * n)
                 /\ (level = "heavy") <=> (13 * n <= 10 * w /\ 10 * w < 15 * n)
                 /\ (level = "severe") <=> (15 * n <= 10 * w)
                 /\ \A w2 \in Durations, n2 \in Durations :
                       (n2 > 0 /\ w * n2 <= w2 * n)
                          => LevelRank(level) <= LevelRank(traffic_level(w2, n2))
            /\ n <= 0 => level = "light"

C14_RatioOnBoundary ==
    /\ Measured
    /\ run.normal_duration > 0
    /\ 10 * run.traffic_duration = 11 * run.normal_duration
    /\ run.result.traffic_level = "moderate"

\* C15: delay_minutes is the floor of (withTraffic - withoutTraffic) / 60 for
\* all durations, negative differences included and never clamped to 0; the
\* sample (1200, 1000) gives level moderate, 3 minutes, has_traffic true.
C15_DelayIsFloor ==
    Measured =>
        LET w == run.traffic_duration
            n == run.normal_duration
        IN  /\ run.result.delay_minutes = (w - n) \div 60
            /\ (w = ExampleTraffic /\ n = ExampleNormal) =>
                  /\ run.result.traffic_level = "moderate"
                  /\ run.result.delay_minutes = 3
                  /\ run.result.has_traffic

\* a request of the client came back without route data
MissingRouteData ==
    \/ run.with_traffic.kind = "empty"
    \/ run.without_traffic.kind = "empty"

LookupRaised ==
    \/ run.with_traffic.kind = "raises"
    \/ run.without_traffic.kind = "raises"

\* C18: when the with-traffic or the without-traffic request returns no
\* route data, get_traffic_info reports status error with traffic_level
\* "unknown" and has_traffic false, and so it does when a request raises.
C18_MissingDataIsError ==
    (run.fn = "traffic" /\ run.pc = "done" /\ (MissingRouteData \/ LookupRaised))
        => /\ run.result.status = "error"
           /\ run.result.traffic_level = "unknown"
           /\ run.result.has_traffic = FALSE

(***************************************************************************)
(* process_navigation_query of app.py: the rules that answer when the      *)
(* generation gave no reply                                                *)
(***************************************************************************)

NearbyCoffee == <<"f", "i", "n", "d", " ", "n", "e", "a", "r", "b", "y", " ", "c", "o", "f", "f", "e", "e">>

ShortcutQuery == <<"A", "n", "y", " ", "s", "h", "o", "r", "t", "c", "u", "t", "?">>

NearbyPetrol == <<"P", "e", "t", "r", "o", "l", " ", "p", "u", "m", "p", " ", "c", "l", "o", "s", "e", " ", "b", "y">>

AroundQuery == <<"W", "h", "a", "t", " ", "i", "s", " ", "a", "r", "o", "u", "n", "d", " ", "h", "e", "r", "e", "?">>

TrafficOnFlyover == <<"T", "r", "a", "f", "f", "i", "c", " ", "o", "n", " ", "t", "h", "e", " ", "F", "l", "y", "o", "v", "e", "r", "?">>

FasterBridgeNearby == <<"I", "s", " ", "a", " ", "f", "a", "s", "t", "e", "r", " ", "b", "r", "i", "d", "g", "e", " ", "n", "e", "a", "r", "b", "y", "?">>

QuickerCafe == <<"F", "i", "n", "d", " ", "a", " ", "q", "u", "i", "c", "k", "e", "r", " ", "w", "a", "y", " ", "t", "o", " ", "a", " ", "c", "a", "f", "e">>

PlainQuery == <<"T", "a", "k", "e", " ", "m", "e", " ", "h", "o", "m", "e">>

AppQueries ==
    {NearbyCoffee, ShortcutQuery, NearbyPetrol, AroundQuery, FlyoverQuery, TrafficQuery,
     TrafficOnFlyover, FasterBridgeNearby, QuickerCafe, PlainQuery}

\* the optional fields of NavigationQueryRequest: None, or a dict
NoLocation == [none |-> TRUE, empty |-> TRUE]

Location == [none |-> FALSE, empty |-> FALSE]

Locations == {NoLocation, Location}

NoContext == [none |-> TRUE, empty |-> TRUE, has_destination |-> FALSE]

EmptyContext == [none |-> FALSE, empty |-> TRUE, has_destination |-> FALSE]

PlainContext == [none |-> FALSE, empty |-> FALSE, has_destination |-> FALSE]

DestinationContext == [none |-> FALSE, empty |-> FALSE, has_destination |-> TRUE]

Contexts == {NoContext, EmptyContext, PlainContext, DestinationContext}

\* the truth value Python gives an optional dict
truthy(hint) == ~hint.none /\ ~hint.empty

\* `request.context.get("destination")`: an AttributeError when it is None
context_destination(context) ==
    IF context.none THEN "raises"
    ELSE IF context.has_destination THEN "truthy"
    ELSE "falsy"

\* the condition without its test of request.context
traffic_hints_unguarded(location, context) ==
    IF ~truthy(location) THEN "falsy"
    ELSE context_destination(context)

\* `request.location and request.context and request.context.get("destination")`
traffic_hints(location, context) ==
    IF ~truthy(location) THEN "falsy"
    ELSE IF ~truthy(context) THEN "falsy"
    ELSE context_destination(context)

FeatureKeywords ==
    <<<<"f", "l", "y", "o", "v", "e", "r">>,
     <<"u", "n", "d", "e", "r", "p", "a", "s", "s">>,
     <<"b", "r", "i", "d", "g", "e">>,
     <<"t", "u", "n", "n", "e", "l">>>>

AlternativeKeywords ==
    <<<<"s", "h", "o", "r", "t", "c", "u", "t">>,
     <<"f", "a", "s", "t", "e", "r">>,
     <<"q", "u", "i", "c", "k", "e", "r">>,
     <<"a", "l", "t", "e", "r", "n", "a", "t", "i", "v", "e">>,
     <<"a", "n", "o", "t", "h", "e", "r", " ", "w", "a", "y">>>>

NearbyKeywords ==
    <<<<"n", "e", "a", "r", "b", "y">>,
     <<"c", "l", "o", "s", "e">>,
     <<"a", "r", "o", "u", "n", "d">>,
     <<"f", "i", "n", "d">>,
     <<"s", "e", "a", "r", "c", "h">>>>

place_types ==
    <<<<"r", "e", "s", "t", "a", "u", "r", "a", "n", "t">>,
     <<"g", "a", "s">>,
     <<"p", "e", "t", "r", "o", "l">>,
     <<"f", "u", "e", "l">>,
     <<"h", "o", "t", "e", "l">>,
     <<"h", "o", "s", "p", "i", "t", "a", "l">>,
     <<"p", "h", "a", "r", "m", "a", "c", "y">>,
     <<"a", "t", "m">>,
     <<"b", "a", "n", "k">>,
     <<"c", "a", "f", "e">>,
     <<"c", "o", "f", "f", "e", "e">>>>

GasTerms == {<<"g", "a", "s">>, <<"p", "e", "t", "r", "o", "l">>, <<"f", "u", "e", "l">>}

GasStation == <<"g", "a", "s", " ", "s", "t", "a", "t", "i", "o", "n">>

\* any(keyword in query_lower for keyword in keywords), keywords a sequence
any_in(keywords, query_lower) ==
    \E i \in 1..Len(keywords) : Contains(keywords[i], query_lower)

\* next((keyword for keyword in keywords if keyword in query_lower), None):
\* the index of the first one found, 0 for None
first_in(keywords, query_lower) ==
    IF any_in(keywords, query_lower)
    THEN SetMin({i \in 1..Len(keywords) : Contains(keywords[i], query_lower)})
    ELSE 0

feature_reply(feature) ==
    <<"T", "h", "e", "r", "e", "'", "s", " ", "a", " ">> \o feature \o <<" ", "a", "h", "e", "a", "d", " ", "o", "n", " ", "y", "o", "u", "r", " ", "r", "o", "u", "t", "e", ".", " ", "I", "'", "l", "l", " ", "g", "u", "i", "d", "e", " ", "y", "o", "u", " ", "w", "h", "e", "n", " ", "w", "e", " ", "g", "e", "t", " ", "c", "l", "o", "s", "e", "r", ".">>

AlternativeReply == <<"I", "'", "l", "l", " ", "c", "h", "e", "c", "k", " ", "f", "o", "r", " ", "a", "l", "t", "e", "r", "n", "a", "t", "i", "v", "e", "s", " ", "o", "n", " ", "y", "o", "u", "r", " ", "r", "o", "u", "t", "e", ".", " ", "L", "e", "t", " ", "m", "e", " ", "a", "n", "a", "l", "y", "z", "e", " ", "t", "h", "e", " ", "t", "r", "a", "f", "f", "i", "c", " ", "c", "o", "n", "d", "i", "t", "i", "o", "n", "s", ".">>

\* f"I'll help you find {found_type}s nearby. Please make sure your location is enabled."
enable_location_reply(found_type) ==
    <<"I", "'", "l", "l", " ", "h", "e", "l", "p", " ", "y", "o", "u", " ", "f", "i", "n", "d", " ">> \o found_type \o <<"s", " ", "n", "e", "a", "r", "b", "y", ".", " ", "P", "l", "e", "a", "s", "e", " ", "m", "a", "k", "e", " ", "s", "u", "r", "e", " ", "y", "o", "u", "r", " ", "l", "o", "c", "a", "t", "i", "o", "n", " ", "i", "s", " ", "e", "n", "a", "b", "l", "e", "d", ".">>

PlaceName == <<"C", "a", "f", "e", " ", "O", "n", "e">>

Digit == <<"1", "2", "3">>

\* f"I found {place_count} {search_term}s nearby. The closest one is {name}."
found_places_reply(place_count, search_term) ==
    <<"I", " ", "f", "o", "u", "n", "d", " ">> \o <<Digit[place_count]>> \o <<" ">> \o search_term \o <<"s", " ", "n", "e", "a", "r", "b", "y", ".", " ", "T", "h", "e", " ", "c", "l", "o", "s", "e", "s", "t", " ", "o", "n", "e", " ", "i", "s", " ">> \o PlaceName \o <<".">>

\* what navigation.find_places does: it raises, or hands back a status and
\* a number of places
PlacesOutcomes ==
    {[raises |-> TRUE, status |-> "error", count |-> 0],
     [raises |-> FALSE, status |-> "ZERO_RESULTS", count |-> 0],
     [raises |-> FALSE, status |-> "OK", count |-> 0],
     [raises |-> FALSE, status |-> "OK", count |-> 1],
     [raises |-> FALSE, status |-> "OK", count |-> 4]}

response_data(query_type, response, traffic_called, places_called) ==
    [raised |-> 0,
     query_type |-> query_type,
     response |-> response,
     traffic_called |-> traffic_called,
     places_called |-> places_called]

\* `raise HTTPException(status_code=...)`
HTTPException(status_code) ==
    [raised |-> status_code,
     query_type |-> "none",
     response |-> <<>>,
     traffic_called |-> FALSE,
     places_called |-> FALSE]

\* the branch for a query about traffic
app_traffic(location, context, traffic_info) ==
    LET hints == traffic_hints(location, context)
    IN  IF hints = "raises" THEN HTTPException(500)
        ELSE IF hints = "truthy" /\ ~traffic_info.raises
        THEN response_data("traffic", traffic_reply(traffic_info), TRUE, FALSE)
        ELSE response_data("traffic", TrafficFallback, hints = "truthy", FALSE)

\* the branch for a query about a place nearby
app_nearby(query_lower, location, places) ==
    LET found == first_in(place_types, query_lower)
        found_type == place_types[found]
        search_term == IF found_type \in GasTerms THEN GasStation ELSE found_type
    IN  IF found = 0
        THEN response_data("general_navigation", DefaultReply, FALSE, FALSE)
        ELSE IF truthy(location) /\ ~places.raises /\ places.status = "OK" /\ places.count > 0
        THEN response_data("nearby_place",
                           found_places_reply(IF places.count < 3 THEN places.count ELSE 3,
                                              search_term),
                           FALSE, TRUE)
        ELSE response_data("nearby_place", enable_location_reply(found_type),
                           FALSE, truthy(location))

\* the rules with the test for a route feature ahead of the test for traffic
app_rule_based_feature_first(query, location, context, traffic_info, places) ==
    LET query_lower == lower(query)
    IN  IF any_in(FeatureKeywords, query_lower)
        THEN response_data("route_feature",
                           feature_reply(FeatureKeywords[first_in(FeatureKeywords, query_lower)]),
                           FALSE, FALSE)
        ELSE IF any_in(<<<<"t", "r", "a", "f", "f", "i", "c">>, <<"c", "o", "n", "g", "e", "s", "t", "i", "o", "n">>, <<"j", "a", "m">>, <<"b", "u", "s", "y">>>>, query_lower)
        THEN app_traffic(location, context, traffic_info)
        ELSE IF any_in(AlternativeKeywords, query_lower)
        THEN response_data("alternative_route", AlternativeReply, FALSE, FALSE)
        ELSE IF any_in(NearbyKeywords, query_lower)
        THEN app_nearby(query_lower, location, places)
        ELSE response_data("general_navigation", DefaultReply, FALSE, FALSE)

\* process_navigation_query from `query_lower = request.query.lower()` on
app_rule_based(query, location, context, traffic_info, places) ==
    LET query_lower == lower(query)
    IN  IF any_in(<<<<"t", "r", "a", "f", "f", "i", "c">>, <<"c", "o", "n", "g", "e", "s", "t", "i", "o", "n">>, <<"j", "a", "m">>, <<"b", "u", "s", "y">>>>, query_lower)
        THEN app_traffic(location, context, traffic_info)
        ELSE IF any_in(FeatureKeywords, query_lower)
        THEN response_data("route_feature",
                           feature_reply(FeatureKeywords[first_in(FeatureKeywords, query_lower)]),
                           FALSE, FALSE)
        ELSE IF any_in(AlternativeKeywords, query_lower)
        THEN response_data("alternative_route", AlternativeReply, FALSE, FALSE)
        ELSE IF any_in(NearbyKeywords, query_lower)
        THEN app_nearby(query_lower, location, places)
        ELSE response_data("general_navigation", DefaultReply, FALSE, FALSE)

\* what `llm.generate_reply(prompt)` does when a generator is configured
AppGeneration == {"no_llm", "success", "error", "raises"}

\* POST /api/navigation/query
AppNavigationQuery(query, location, context, generation, traffic_info, places) ==
    /\ run.fn = "none"
    /\ run' = [fn |-> "app_navigation_query",
               pc |-> "done",
               query |-> query,
               location |-> location,
               context |-> context,
               generation |-> generation,
               traffic_info |-> traffic_info,
               places |-> places,
               classified |-> query # <<>> /\ generation \in {"no_llm", "error"},
               result |->
                   IF query = <<>> THEN HTTPException(400)
                   ELSE IF generation = "raises" THEN HTTPException(500)
                   ELSE IF generation = "success"
                   THEN response_data("llm_processed", GenMarked, FALSE, FALSE)
                   ELSE app_rule_based(query, location, context, traffic_info, places)]
    /\ StoreKept

AppReturned ==
    /\ run.fn = "app_navigation_query"
    /\ run' = NoRun
    /\ StoreKept

NextApp ==
    \/ \E query \in AppQueries \cup {<<>>}, location \in Locations,
          context \in Contexts, generation \in AppGeneration,
          traffic_info \in TrafficOutcomes, places \in PlacesOutcomes :
             AppNavigationQuery(query, location, context, generation, traffic_info, places)
    \/ AppReturned

SpecApp == Init /\ [][NextApp]_vars

\* the rules were asked
Classified ==
    /\ run.fn = "app_navigation_query"
    /\ run.classified

\* C16: "find nearby coffee" without a location is classified nearby_place
\* and answered with the reply that asks to enable the location, the places
\* lookup is not called and nothing is raised; and for every query the rules
\* do not raise when the location or the context is missing.
C16_MissingHintsDoNotRaise ==
    Classified =>
        /\ (run.query = NearbyCoffee /\ run.location.none) =>
              /\ run.result.raised = 0
              /\ run.result.query_type = "nearby_place"
              /\ run.result.response = enable_location_reply(<<"c", "o", "f", "f", "e", "e">>)
              /\ ~run.result.places_called
        /\ (run.location.none \/ run.context.none) => run.result.raised = 0

C16_NearbyCoffeeWithoutLocation ==
    /\ Classified
    /\ run.query = NearbyCoffee
    /\ run.location.none
    /\ run.context.none
    /\ run.result.query_type = "nearby_place"

(***************************************************************************)
(* detect_wake_word: POST /wake/detect (saarthi/routes.py) and             *)
(* POST /api/wake/detect (app.py)                                          *)
(***************************************************************************)

\* the two lists of saarthi/routes.py; the second entry of the variants is
\* three literals with no comma between them, one phrase
routes_primary_wake_words ==
    <<<<"s", "u", "n", "o", " ", "s", "a", "t", "h", "i">>,
     <<"h", "e", "l", "l", "o", " ", "s", "a", "t", "h", "i">>,
     <<"h", "e", "y", " ", "s", "a", "t", "h", "i">>,
     <<"h", "i", " ", "s", "a", "t", "h", "i">>,
     <<"h", "e", " ", "s", "a", "t", "h", "i">>,
     <<"h", "a", "i", " ", "s", "a", "t", "h", "i">>>>

routes_variant_wake_words ==
    <<<<"h", "e", " ", "s", "a", "t", "h", "i">>,
     <<"h", "e", " ", "s", "h", "a", "a", "d", "i", "h", "e", " ", "s", "h", "a", "d", "i", "h", "e", " ", "s", "a", "a", "r", "t", "h", "i">>,
     <<"h", "e", " ", "s", "a", "r", "a", "t", "h", "i">>,
     <<"h", "e", " ", "s", "a", "a", "r", "t", "i">>,
     <<"h", "e", " ", "s", "a", "k", "s", "h", "i">>,
     <<"s", "u", "n", "n", "o", " ", "s", "a", "t", "h", "i">>,
     <<"s", "u", "n", "n", "o", " ", "s", "a", "t", "h", "i">>,
     <<"s", "o", "n", "u", " ", "s", "a", "t", "h", "i">>,
     <<"s", "o", "n", "u", " ", "s", "a", "t", "h", "i">>,
     <<"s", "o", "o", "n", "u", " ", "s", "a", "t", "h", "i">>,
     <<"s", "u", "n", "o", " ", "s", "a", "t", "i">>,
     <<"s", "u", "n", "o", " ", "s", "a", "a", "t", "i">>,
     <<"s", "u", "n", "o", " ", "s", "a", "k", "s", "h", "i">>,
     <<"o", "k", " ", "s", "a", "t", "h", "i">>,
     <<"o", "k", "a", "y", " ", "s", "a", "t", "h", "i">>,
     <<"h", "e", "y", " ", "s", "a", "t", "h", "i">>,
     <<"h", "i", " ", "s", "a", "t", "h", "i">>,
     <<"h", "e", "l", "l", "o", " ", "s", "a", "t", "h", "i">>,
     <<"h", "e", " ", "s", "a", "t", "h", "i">>,
     <<"l", "i", "s", "t", "e", "n", " ", "s", "a", "t", "h", "i">>,
     <<"y", "o", " ", "s", "a", "t", "h", "i">>,
     <<"h", "e", "y", " ", "b", "u", "d", "d", "y">>,
     <<"h", "e", "l", "l", "o", " ", "b", "u", "d", "d", "y">>>>

\* the two lists of app.py
app_primary_wake_words ==
    <<<<"s", "u", "n", "o", " ", "s", "a", "a", "r", "t", "h", "i">>,
     <<"h", "e", "l", "l", "o", " ", "s", "a", "a", "r", "t", "h", "i">>>>

app_variant_wake_words ==
    <<<<"s", "u", "n", "o", " ", "s", "a", "r", "a", "t", "h", "i">>,
     <<"s", "u", "n", "o", " ", "s", "a", "r", "t", "h", "i">>,
     <<"s", "u", "n", "o", " ", "s", "a", "a", "r", "t", "i">>,
     <<"s", "u", "n", "n", "o", " ", "s", "a", "a", "r", "t", "h", "i">>,
     <<"s", "o", "n", "u", " ", "s", "a", "a", "r", "t", "h", "i">>,
     <<"s", "o", "o", "n", "u", " ", "s", "a", "a", "r", "t", "h", "i">>,
     <<"h", "e", "y", " ", "s", "a", "a", "r", "t", "h", "i">>,
     <<"h", "i", " ", "s", "a", "a", "r", "t", "h", "i">>,
     <<"o", "k", " ", "s", "a", "a", "r", "t", "h", "i">>>>

WakeEndpoints ==
    {[name |-> "routes",
      primary_wake_words |-> routes_primary_wake_words,
      variant_wake_words |-> routes_variant_wake_words],
     [name |-> "app",
      primary_wake_words |-> app_primary_wake_words,
      variant_wake_words |-> app_variant_wake_words]}

\* confidence in hundredths: 0.95 is 95, 0.85 is 85, 0.0 is 0
confidence_variant_first(primary_detected, variant_detected) ==
    IF variant_detected THEN 85
    ELSE IF primary_detected THEN 95
    ELSE 0

confidence_of(primary_detected, variant_detected) ==
    IF primary_detected THEN 95
    ELSE IF variant_detected THEN 85
    ELSE 0

NoWord == [none |-> TRUE, word |-> <<>>]

\* next((word for word in primary_wake_words + variant_wake_words
\*       if word in text_lower), None)
wake_word_found(words, text_lower) ==
    LET found == first_in(words, text_lower)
    IN  IF found = 0 THEN NoWord ELSE [none |-> FALSE, word |-> words[found]]

\* detect_wake_word for a text that is not empty
wake_response(endpoint, text) ==
    LET text_lower == lower(text)
        primary_detected == any_in(endpoint.primary_wake_words, text_lower)
        variant_detected == any_in(endpoint.variant_wake_words, text_lower)
    IN  [raised |-> 0,
         detected |-> primary_detected \/ variant_detected,
         confidence |-> confidence_of(primary_detected, variant_detected),
         text |-> text,
         wake_word_found |->
             wake_word_found(endpoint.primary_wake_words \o endpoint.variant_wake_words,
                             text_lower)]

\* `raise HTTPException(status_code=400, ...)` for an empty text
wake_rejected(text) ==
    [raised |-> 400,
     detected |-> FALSE,
     confidence |-> 0,
     text |-> text,
     wake_word_found |-> NoWord]

\* texts heard: a phrase of one of the lists or another word, alone or
\* inside a sentence, in lower or mixed case
WakeCores ==
    {routes_primary_wake_words[i] : i \in 1..Len(routes_primary_wake_words)}
        \cup {routes_variant_wake_words[i] : i \in 1..Len(routes_variant_wake_words)}
        \cup {app_primary_wake_words[i] : i \in 1..Len(app_primary_wake_words)}
        \cup {app_variant_wake_words[i] : i \in 1..Len(app_variant_wake_words)}
        \cup {<<"S", "u", "n", "o", " ", "S", "a", "a", "r", "t", "h", "i">>,
              <<"H", "E", "Y", " ", "S", "A", "T", "H", "I">>,
              <<"s", "a", "a", "r", "t", "h", "i">>,
              <<"h", "e", "l", "l", "o">>,
              <<"s", "u", "n", "o">>}

WakePrefixes == {<<>>, <<"s", "o", " ">>}

WakeSuffixes == {<<>>, <<" ", "c", "h", "a", "l", "o">>}

WakeTexts ==
    {p \o c \o s : p \in WakePrefixes, c \in WakeCores, s \in WakeSuffixes} \cup {<<>>}

DetectWakeWord(endpoint, text) ==
    /\ run.fn = "none"
    /\ run' = [fn |-> "detect_wake_word",
               pc |-> "done",
               endpoint |-> endpoint,
               result |-> IF text = <<>> THEN wake_rejected(text)
                          ELSE wake_response(endpoint, text)]
    /\ StoreKept

WakeReturned ==
    /\ run.fn = "detect_wake_word"
    /\ run' = NoRun
    /\ StoreKept

NextWake ==
    \/ \E endpoint \in WakeEndpoints, text \in WakeTexts : DetectWakeWord(endpoint, text)
    \/ WakeReturned

SpecWake == Init /\ [][NextWake]_vars

\* a phrase of the list is in the lower-cased text
Matches(words, text) ==
    \E i \in 1..Len(words) : Contains(words[i], lower(text))

\* C17: the confidence is 0.95 when a primary phrase matches, a matching
\* variant or not, 0.85 when only a variant matches, and 0.0 with detected
\* false and no phrase reported when none matches; detected is true exactly
\* when the confidence is above 0 and exactly when a phrase is reported.
C17_ThreeConfidences ==
    (run.fn = "detect_wake_word" /\ run.result.raised = 0) =>
        LET r == run.result
            primary == Matches(run.endpoint.primary_wake_words, r.text)
            variant == Matches(run.endpoint.variant_wake_words, r.text)
        IN  /\ r.confidence \in {0, 85, 95}
            /\ primary => r.confidence = 95
            /\ (variant /\ ~primary) => r.confidence = 85
            /\ (~variant /\ ~primary) =>
                  /\ r.confidence = 0
                  /\ ~r.detected
                  /\ r.wake_word_found.none
            /\ r.detected <=> r.confidence > 0
            /\ r.detected <=> ~r.wake_word_found.none

C17_PrimaryAndVariantMatch ==
    /\ run.fn = "detect_wake_word"
    /\ run.result.raised = 0
    /\ Matches(run.endpoint.primary_wake_words, run.result.text)
    /\ Matches(run.endpoint.variant_wake_words, run.result.text)
    /\ run.result.confidence = 95

(***************************************************************************)
(* clean_llm_response applied to generated texts                           *)
(***************************************************************************)

\* texts of a generation: an opening, a quoted span, the marked reply, an end
CleanHeads ==
    {<<>>,
     <<"A", "s", "s", "u", "m", "i", "n", "g", " ", "X", ".", ".", ".", " ">>,
     <<"H", "e", "r", "e", "'", "s", " ", "a", " ", "p", "o", "s", "s", "i", "b", "l", "e", " ", "r", "e", "s", "p", "o", "n", "s", "e", ":", " ">>,
     <<"N", "o", "t", "e", ":", " ">>,
     <<"T", "i", "p", ":", " ", "n", "o", "t", "e", ":", " ">>,
     <<" ", " ">>}

CleanQuotes ==
    {<<>>,
     <<"\"", "u0928", "u092E", "u0938", "\"", " ">>,
     <<"\"", "h", "e", "l", "l", "o", "\"", " ">>}

CleanMarked ==
    {<<>>,
     GenMarked,
     <<"S", "a", "a", "r", "t", "h", "i", ":", " ", "e", "k", "\n", "S", "a", "a", "r", "t", "h", "i", ":", " ", "d", "o">>,
     <<"S", "a", "a", "r", "t", "h", "i", ":", " ", "e", "k", " ", "S", "a", "a", "r", "t", "h", "i", ":", " ", "d", "o">>}

CleanTails ==
    {<<>>,
     <<" ", "(", "G", "o", " ", "s", "t", "r", "a", "i", "g", "h", "t", ")">>,
     <<"\n", "c", "h", "a", "l", "o">>}

CleanTexts ==
    {h \o q \o m \o e : h \in CleanHeads, q \in CleanQuotes, m \in CleanMarked, e \in CleanTails}

\* `cleaned_response = clean_llm_response(raw_response)`
CleanCall(response_text) ==
    /\ run.fn = "none"
    /\ run' = [fn |-> "clean_llm_response",
               pc |-> "done",
               text |-> response_text,
               result |-> clean_llm_response(response_text)]
    /\ StoreKept

CleanReturned ==
    /\ run.fn = "clean_llm_response"
    /\ run' = NoRun
    /\ StoreKept

NextClean ==
    \/ \E response_text \in CleanTexts : CleanCall(response_text)
    \/ CleanReturned

SpecClean == Init /\ [][NextClean]_vars

Cleaned == run.fn = "clean_llm_response"

\* C19: the result is that of the first rule that matches, in the order
\* marker, parenthesised clause at the end of a line, quoted Devanagari,
\* "here's a possible response", colon; a later rule gives the result only
\* when no earlier rule matches, and with no rule matching the result is
\* the trimmed text.
C19_FirstMatchingRule ==
    Cleaned =>
        LET text == run.text
            r1 == saarthi_match(text)
            r2 == translation_match(text)
            r3 == quotes_match(text)
            r4 == possible_match(text)
            r5 == last_colon_match(text)
        IN  /\ r1.matched => run.result = strip(r1.group)
            /\ (~r1.matched /\ r2.matched) => run.result = strip(r2.group)
            /\ (~r1.matched /\ ~r2.matched /\ r3.matched) => run.result = strip(r3.group)
            /\ (~r1.matched /\ ~r2.matched /\ ~r3.matched /\ r4.matched)
                  => run.result = strip(r4.group)
            /\ (~r1.matched /\ ~r2.matched /\ ~r3.matched /\ ~r4.matched /\ r5.matched)
                  => run.result = strip(r5.group)
            /\ (~r1.matched /\ ~r2.matched /\ ~r3.matched /\ ~r4.matched /\ ~r5.matched)
                  => run.result = strip(text)

C19_MarkerBeforeClause ==
    /\ Cleaned
    /\ saarthi_match(run.text).matched
    /\ translation_match(run.text).matched
    /\ strip(saarthi_match(run.text).group) # strip(translation_match(run.text).group)
    /\ run.result = strip(saarthi_match(run.text).group)

\* the index of the last occurrence of p in s, 0 when there is none
LastFind(s, p) ==
    LET hits == {i \in 1..(Len(s) - Len(p) + 1) : StartsAt(s, p, i)}
    IN  IF hits = {} THEN 0 ELSE CHOOSE i \in hits : \A j \in hits : j <= i

\* s trimmed, then without the quote character at its start and at its end
Unquoted(s) ==
    LET t == strip(s)
        a == IF Len(t) >= 1 /\ t[1] = "\"" THEN 2 ELSE 1
        b == IF Len(t) >= a /\ t[Len(t)] = "\"" THEN Len(t) - 1 ELSE Len(t)
    IN  strip(SubSeq(t, a, b))

\* C20: a text that holds the marker `Saarthi:` is cleaned to what follows
\* the last occurrence of the marker, through the end of the text, without
\* the quote characters around it.
C20_AfterLastMarker ==
    (Cleaned /\ Contains(SaarthiMarker, run.text)) =>
        run.result = Unquoted(From(run.text,
                                   LastFind(run.text, SaarthiMarker) + Len(SaarthiMarker)))

\* of the five rules only the colon rule applies to the text
OnlyColonRule(text) ==
    /\ ~saarthi_match(text).matched
    /\ ~translation_match(text).matched
    /\ ~quotes_match(text).matched
    /\ ~possible_match(text).matched
    /\ Contains(<<":">>, text)

\* C21: when only the colon rule applies, the result is the trimmed text
\* after the last colon, with one colon in the text or with several.
C21_AfterLastColon ==
    (Cleaned /\ OnlyColonRule(run.text)) =>
        run.result = strip(From(run.text, LastFind(run.text, <<":">>) + 1))

\* the text holds none of the five triggers
TriggerFree(text) ==
    /\ ~Contains(SaarthiMarker, text)
    /\ ~translation_match(text).matched
    /\ ~quotes_match(text).matched
    /\ ~possible_match(text).matched
    /\ ~Contains(<<":">>, text)

\* r is x without the whitespace at its two ends
IsTrimOf(r, x) ==
    \E a \in 1..(Len(x) + 1), b \in 0..Len(x) :
        /\ r = SubSeq(x, a, b)
        /\ \A i \in 1..(a - 1) : x[i] \in Whitespace
        /\ \A i \in (b + 1)..Len(x) : x[i] \in Whitespace
        /\ r # <<>> => (r[1] \notin Whitespace /\ r[Len(r)] \notin Whitespace)

Asks(keywords) == any_in(keywords, lower(run.query))

AsksTraffic == \E keyword \in TrafficKeywords : Contains(keyword, lower(run.query))

\* C23: the rules test the lower-cased query for traffic, route feature,
\* alternative route and nearby place, in this order, and the first
\* category that has a keyword in the query gives the result whatever
\* keywords of later categories the query holds; every query gets one
\* category, and the default reply when none matches or when a nearby
\* keyword comes without a place type.
C23_FirstCategoryWins ==
    (Classified /\ run.result.raised = 0) =>
        LET r == run.result
            nearby == Asks(NearbyKeywords) /\ Asks(place_types)
        IN  /\ r.query_type \in {"traffic", "route_feature", "alternative_route",
                                 "nearby_place", "general_navigation"}
            /\ AsksTraffic => r.query_type = "traffic"
            /\ (~AsksTraffic /\ Asks(FeatureKeywords)) => r.query_type = "route_feature"
            /\ (~AsksTraffic /\ ~Asks(FeatureKeywords) /\ Asks(AlternativeKeywords))
                  => r.query_type = "alternative_route"
            /\ (~AsksTraffic /\ ~Asks(FeatureKeywords) /\ ~Asks(AlternativeKeywords) /\ nearby)
                  => r.query_type = "nearby_place"
            /\ (~AsksTraffic /\ ~Asks(FeatureKeywords) /\ ~Asks(AlternativeKeywords) /\ ~nearby)
                  => /\ r.query_type = "general_navigation"
                     /\ r.response = DefaultReply

C23_TrafficBeforeFeature ==
    /\ Classified
    /\ AsksTraffic
    /\ Asks(FeatureKeywords)
    /\ run.result.query_type = "traffic"

\* C24: when the traffic or the places lookup of the rules raises or hands
\* back an error outcome, the reply is the generic one of the category (the
\* request to enable the location); the reply "Traffic is ... delay of ...
\* minutes" comes from a successful traffic lookup only.
C24_LookupFailureDegrades ==
    (Classified /\ run.result.raised = 0) =>
        /\ (/\ run.result.traffic_called
            /\ (run.traffic_info.raises \/ run.traffic_info.status # "success"))
              => run.result.response = TrafficFallback
        /\ (/\ run.result.places_called
            /\ (run.places.raises \/ run.places.status # "OK"))
              => \E i \in 1..Len(place_types) :
                    run.result.response = enable_location_reply(place_types[i])
        /\ (\E traffic_info \in TrafficOutcomes :
               ~traffic_info.raises /\ run.result.response = traffic_reply(traffic_info))
              => run.traffic_info.status = "success"

(***************************************************************************)
(* Session.get_formatted_history, generate_reply, process_navigation_prompt *)
(***************************************************************************)

\* the lines of the messages from index i on: f"User: {content}\n" for a
\* user turn, f"Saarthi: {content}\n" for any other
RECURSIVE formatted_messages(_, _)
formatted_messages(messages, i) ==
    IF i > Len(messages) THEN <<>>
    ELSE (IF messages[i].role = "user"
          THEN <<"U", "s", "e", "r", ":", " ">>
          ELSE <<"S", "a", "a", "r", "t", "h", "i", ":", " ">>)
         \o messages[i].content \o <<"\n">> \o formatted_messages(messages, i + 1)

\* the history with the open turn added whatever the last message is
get_formatted_history_always_open(session) ==
    session.system_prompt \o <<"\n", "\n">>
        \o formatted_messages(session.messages, 1)
        \o <<"S", "a", "a", "r", "t", "h", "i", ":", " ">>

\* Session.get_formatted_history
get_formatted_history(session) ==
    session.system_prompt \o <<"\n", "\n">>
        \o formatted_messages(session.messages, 1)
        \o (IF session.messages # <<>> /\ session.messages[Len(session.messages)].role = "user"
            THEN <<"S", "a", "a", "r", "t", "h", "i", ":", " ">>
            ELSE <<>>)

\* the keys process_navigation_prompt reads, and the text of each value
ContextKeys == {"current_location", "destination", "next_turn", "distance_remaining", "route_info"}

ContextValue(key) ==
    CASE key = "current_location" -> <<"N", "o", "i", "d", "a">>
      [] key = "destination" -> <<"D", "e", "l", "h", "i">>
      [] key = "next_turn" -> <<"l", "e", "f", "t">>
      [] key = "distance_remaining" -> <<"5", " ", "k", "m">>
      [] key = "route_info" -> <<"T", "u", "r", "n", " ", "l", "e", "f", "t", " ", "(", "2", "0", "0", " ", "m", ")">>

Unknown == <<"U", "n", "k", "n", "o", "w", "n">>

\* navigation_context: None, or a dict holding some of the keys
NoNavigationContext == [none |-> TRUE, keys |-> {}]

NavigationContexts ==
    {NoNavigationContext} \cup {[none |-> FALSE, keys |-> K] : K \in SUBSET ContextKeys}

\* navigation_context.get(key, 'Unknown')
context_get(navigation_context, key) ==
    IF key \in navigation_context.keys THEN ContextValue(key) ELSE Unknown

\* the block under `if navigation_context:`
context_lines(navigation_context) ==
    <<"C", "u", "r", "r", "e", "n", "t", " ", "l", "o", "c", "a", "t", "i", "o", "n", ":", " ">> \o context_get(navigation_context, "current_location") \o <<".", " ">>
        \o <<"D", "e", "s", "t", "i", "n", "a", "t", "i", "o", "n", ":", " ">> \o context_get(navigation_context, "destination") \o <<".", " ">>
        \o <<"N", "e", "x", "t", " ", "t", "u", "r", "n", ":", " ">> \o context_get(navigation_context, "next_turn") \o <<".", " ">>
        \o <<"D", "i", "s", "t", "a", "n", "c", "e", " ", "r", "e", "m", "a", "i", "n", "i", "n", "g", ":", " ">> \o context_get(navigation_context, "distance_remaining") \o <<".", " ">>

\* process_navigation_prompt down to its call of generate_reply: the prompt,
\* or the AttributeError of `navigation_context.get("route_info", [])` on None
navigation_prompt(user_query, navigation_context) ==
    LET given == ~navigation_context.none /\ navigation_context.keys # {}
        context ==
            <<"Y", "o", "u", " ", "a", "r", "e", " ", "n", "a", "v", "i", "g", "a", "t", "i", "n", "g", " ", "a", "n", "d", " ", "n", "e", "e", "d", " ", "t", "o", " ", "p", "r", "o", "v", "i", "d", "e", " ", "c", "l", "e", "a", "r", ",", " ", "c", "o", "n", "c", "i", "s", "e", " ", "d", "i", "r", "e", "c", "t", "i", "o", "n", "s", ".", " ">>
                \o (IF given THEN context_lines(navigation_context) ELSE <<>>)
                \o (IF "route_info" \in navigation_context.keys
                    THEN <<"R", "o", "u", "t", "e", " ", "d", "e", "t", "a", "i", "l", "s", ":", " ">> \o ContextValue("route_info") \o <<".", " ">>
                    ELSE <<>>)
                \o <<"\n", "K", "e", "e", "p", " ", "y", "o", "u", "r", " ", "r", "e", "s", "p", "o", "n", "s", "e", " ", "u", "n", "d", "e", "r", " ", "1", "5", " ", "w", "o", "r", "d", "s", ",", " ", "f", "o", "c", "u", "s", "e", "d", " ", "o", "n", " ", "t", "h", "e", " ", "i", "m", "m", "e", "d", "i", "a", "t", "e", " ", "n", "a", "v", "i", "g", "a", "t", "i", "o", "n", " ", "n", "e", "e", "d", ".">>
    IN  IF navigation_context.none
        THEN [raised |-> TRUE, prompt |-> <<>>]
        ELSE [raised |-> FALSE,
              prompt |-> context \o <<"\n", "\n", "U", "s", "e", "r", " ", "a", "s", "k", "s", ":", " ">> \o user_query \o <<"\n", "N", "a", "v", "i", "g", "a", "t", "i", "o", "n", " ", "r", "e", "s", "p", "o", "n", "s", "e", ":">>]

\* generate_reply(prompt, include_context=False, session_id): the prompt
\* handed to llm.chat, session the object get_session returned (0 for none)
generate_reply_prompt(M, session, prompt) ==
    IF session # 0
    THEN get_formatted_history(M.heap[session]) \o <<"\n", "U", "s", "e", "r", ":", " ">> \o prompt \o <<"\n", "S", "a", "a", "r", "t", "h", "i", ":">>
    ELSE prompt

NavigationQuestion == <<"W", "h", "e", "r", "e", " ", "n", "e", "x", "t", "?">>

\* process_navigation_prompt(user_query, navigation_context, session_id)
ProcessNavigationPrompt(t, user_query, navigation_context, session_id, llm_response) ==
    /\ th[t].pc = "idle"
    /\ LET p == navigation_prompt(user_query, navigation_context)
           g == IF p.raised \/ session_id = NoId
                THEN [M |-> World, session |-> 0]
                ELSE get_session(World, session_id)
       IN  Commit(g.M,
                  [th EXCEPT ![t] =
                      Return(Call("process_navigation_prompt", session_id),
                             [kind |-> "reply",
                              raised |-> p.raised,
                              navigation_context |-> navigation_context,
                              full_prompt |-> IF p.raised THEN <<>>
                                              ELSE generate_reply_prompt(g.M, g.session, p.prompt),
                              value |-> IF p.raised THEN exhausted_result ELSE llm_response])])
    /\ UNCHANGED now

NextPrompt ==
    \/ CreateSession(Caller, "s1", NoPrompt)
    \/ AddMessage(Caller, "s1", "user", Utterance)
    \/ \E navigation_context \in NavigationContexts, session_id \in {NoId, "s1"},
          llm_response \in ChatResults :
             ProcessNavigationPrompt(Caller, NavigationQuestion, navigation_context,
                                     session_id, llm_response)

SpecPrompt == Init /\ [][NextPrompt]_vars

PromptReturned ==
    /\ th[Caller].pc = "idle"
    /\ th[Caller].op = "process_navigation_prompt"

\* C25: process_navigation_prompt does not raise, and returns a reply, when
\* the navigation context is None, when it is an empty dict and when it is a
\* dict without some of the keys current_location, destination, next_turn,
\* distance_remaining, route_info.
C25_MalformedContextTolerated ==
    PromptReturned =>
        /\ ~th[Caller].ret.raised
        /\ th[Caller].ret.value.status \in {"success", "error"}

\* `conversation = session.get_formatted_history()` on the session stored
\* under the id
FormatHistory(t, session_id) ==
    /\ th[t].pc = "idle"
    /\ Present(session_id)
    /\ Commit(World,
              [th EXCEPT ![t] = Return(Call("get_formatted_history", session_id),
                                       [kind |-> "history",
                                        text |-> get_formatted_history(Stored(session_id))])])
    /\ UNCHANGED now

NextHistory ==
    \/ Tick
    \/ \E p \in Prompts : CreateSession(Caller, "s1", p)
    \/ \E role \in Roles : AddMessage(Caller, "s1", role, Utterance)
    \/ FormatHistory(Caller, "s1")

SpecHistory == Init /\ [][NextHistory]_vars

Formatted ==
    /\ th[Caller].pc = "idle"
    /\ th[Caller].op = "get_formatted_history"

\* the line of one message
HistoryLine(message) ==
    (IF message.role = "user" THEN <<"U", "s", "e", "r", ":", " ">> ELSE <<"S", "a", "a", "r", "t", "h", "i", ":", " ">>) \o message.content \o <<"\n">>

\* the text is the lines of the messages from index i on, and then the rest
RECURSIVE IsLinesThen(_, _, _, _)
IsLinesThen(text, messages, i, rest) ==
    IF i > Len(messages) THEN text = rest
    ELSE /\ IsPrefix(HistoryLine(messages[i]), text)
         /\ IsLinesThen(From(text, Len(HistoryLine(messages[i])) + 1), messages, i + 1, rest)

\* C26: the text get_formatted_history returns is the system prompt, a blank
\* line, one line per message in the order of the log ("User: " before a
\* user turn, "Saarthi: " before any other), and the open "Saarthi: " turn
\* exactly when the log is not empty and ends with a user turn; it is the
\* same for the same prompt and log, and the call leaves the log and
\* last_accessed as they were.
C26_FormattedHistory ==
    /\ [](Formatted =>
            LET session == Stored(th[Caller].session_id)
                text == th[Caller].ret.text
                head == session.system_prompt \o <<"\n", "\n">>
                open == session.messages # <<>> /\ Last(session.messages).role = "user"
            IN  /\ IsPrefix(head, text)
                /\ IsLinesThen(From(text, Len(head) + 1), session.messages, 1,
                               IF open THEN <<"S", "a", "a", "r", "t", "h", "i", ":", " ">> ELSE <<>>))
    /\ [][(th'[Caller].op = "get_formatted_history")
             => /\ heap' = heap
                /\ sessions' = sessions]_vars

C26_OpenTurnAfterUser ==
    /\ Formatted
    /\ Len(Stored(th[Caller].session_id).messages) = 2
    /\ Last(Stored(th[Caller].session_id).messages).role = "user"
    /\ Stored(th[Caller].session_id).messages[1].role = "assistant"

C26_ClosedAfterAssistant ==
    /\ Formatted
    /\ Stored(th[Caller].session_id).messages # <<>>
    /\ Last(Stored(th[Caller].session_id).messages).role = "assistant"

\* C27: no assistant turn in a stored log is empty, and a get_response that
\* returned status success returned a reply that is not empty: a generation
\* that is empty, blank or cleaned down to nothing is neither stored nor
\* returned as a success.
C27_SuccessIsNotEmpty ==
    /\ \A r \in DOMAIN heap : \A i \in DOMAIN heap[r].messages :
          heap[r].messages[i].role = "assistant" => heap[r].messages[i].content # <<>>
    /\ (/\ th[Caller].pc = "idle"
        /\ th[Caller].op = "get_response"
        /\ th[Caller].ret.value.status = "success")
          => th[Caller].ret.value.response # <<>>

(***************************************************************************)
(* The chat endpoint and the history it leaves                             *)
(*                                                                         *)
(* process_llm_query hands the query to get_response, which cleans the     *)
(* generated text and appends it to the session, and then cleans what      *)
(* get_response returned before it answers. The generations drawn here     *)
(* include a text that still holds a label after the speaker marker is     *)
(* taken off.                                                              *)
(***************************************************************************)

\* a generation with a label behind the speaker marker
GenLabelled == <<"S", "a", "a", "r", "t", "h", "i", ":", " ", "N", "o", "t", "e", ":", " ", "s", "e", "e", "d", "h", "e", " ", "c", "h", "a", "l", "o">>

\* what llm.chat can return to the chat endpoint
QueryResults == ChatResults \cup {attempt_result(Returns(GenLabelled))}

\* process_llm_query from the return of llm.chat to the response
LlmQueryReply(t) == \E llm_response \in QueryResults : LlmReplyWith(t, llm_response)

NextQuery ==
    \/ Tick
    \/ \E query \in Queries, context \in {NoId, "s1"} : BeginLlmQuery(Caller, query, context)
    \/ LlmQueryReply(Caller)

SpecQuery == Init /\ [][NextQuery]_vars

\* a step in which the chat endpoint answers with success
AnswersChat ==
    /\ th[Caller].pc = "gr_chat"
    /\ th'[Caller].pc = "idle"
    /\ th'[Caller].ret.kind = "llm_query"
    /\ th'[Caller].ret.value.status = "success"

\* C28: in every successful turn of the chat endpoint, the step that answers
\* appends exactly one assistant message to the session of the turn, and the
\* content of that message is the reply text returned to the caller
C28_ReplyIsStoredTurn ==
    [][AnswersChat =>
          LET r == th[Caller].session
          IN  /\ Len(heap'[r].messages) = Len(heap[r].messages) + 1
              /\ Last(heap'[r].messages) =
                    Message("assistant", th'[Caller].ret.value.response)]_vars

\* a turn answered with the text of GenMarked, stored as returned
C28_MarkedReplyStored ==
    /\ th[Caller].pc = "idle"
    /\ th[Caller].ret.kind = "llm_query"
    /\ th[Caller].ret.value.status = "success"
    /\ th[Caller].ret.value.response # <<>>
    /\ \E r \in DOMAIN heap :
          /\ heap[r].messages # <<>>
          /\ Last(heap[r].messages) = Message("assistant", th[Caller].ret.value.response)

(***************************************************************************)
(* Two requests for one absent id                                          *)
(***************************************************************************)

\* the number of user turns of a log
UserTurns(log) == Cardinality({i \in DOMAIN log : log[i].role = "user"})

\* both callers have come back from get_response("s1", ...) with no time
\* gone by, so that nothing expired in between
BothAnswered ==
    /\ Busy = {}
    /\ now = 0
    /\ \A t \in Threads : /\ th[t].op = "get_response"
                          /\ th[t].arg_id = "s1"
                          /\ th[t].ret.kind = "response"

\* a step in which caller t appends its user turn
AppendsUserTurn(t) == th[t].pc = "gr_user" /\ th'[t].pc = "gr_chat"

\* C29: two get_response calls for the same id share one session: once both
\* have returned, the session stored under the id holds the user turn of
\* each, and whenever a call appends its user turn while the id is in the
\* store, the Session it appends to is the one stored under the id
C29_RequestsShareSession ==
    /\ [](BothAnswered => Present("s1") /\ UserTurns(Stored("s1").messages) = 2)
    /\ [][\A t \in Threads :
            (AppendsUserTurn(t) /\ Present(th[t].session_id))
                => sessions_get(sessions, th[t].session_id) = th[t].session]_vars

(***************************************************************************)
(* The voice debug log and its stream (routes.py)                          *)
(*                                                                         *)
(* Handlers and the generator of the stream run on one event loop: what a  *)
(* coroutine does between two suspensions (a yield, the sleep) is one      *)
(* step. An entry is known by the number of its recording. `run` holds the *)
(* deque, the count of recordings and the generator of one client.         *)
(***************************************************************************)

\* `deque(maxlen=100)`
maxlen == 100

\* entries recorded after the client connected, at most
MaxNew == 3

\* the sizes of the log at which the client connects
ConnectAt == {0, 1, maxlen - 1, maxlen}

\* before anything was recorded and with no client
NoVoice ==
    [fn |-> "voice_logs",
     voice_debug_logs |-> <<>>,
     recorded |-> 0,
     pc |-> "none",
     connected_at |-> 0,
     pending |-> <<>>,
     last_idx |-> 0,
     sent |-> <<>>]

Voice == IF run.fn = "voice_logs" THEN run ELSE NoVoice

\* deque.append on a deque with maxlen: the oldest entry goes when it is full
deque_append(d, x) ==
    IF Len(d) = maxlen THEN Append(Tail(d), x) ELSE Append(d, x)

\* `list(voice_debug_logs)[last_idx:]`
slice_from(d, last_idx) == SubSeq(d, last_idx + 1, Len(d))

\* add_voice_debug_log(message, log_type)
AddVoiceDebugLog ==
    /\ Voice.recorded < (IF Voice.pc = "none" THEN maxlen ELSE Voice.connected_at + MaxNew)
    /\ run' = [Voice EXCEPT !.voice_debug_logs = deque_append(@, Voice.recorded + 1),
                            !.recorded = @ + 1]
    /\ StoreKept

\* the generator at the top of a for loop over `logs`: the first entry is
\* yielded, or with none the loop is over, `last_idx = len(voice_debug_logs)`
\* and it goes to sleep
for_loop(v, logs, pc) ==
    IF logs # <<>>
    THEN [v EXCEPT !.sent = Append(@, Head(logs)), !.pending = Tail(logs), !.pc = pc]
    ELSE [v EXCEPT !.last_idx = Len(v.voice_debug_logs), !.pending = <<>>, !.pc = "sleep"]

\* stream_voice_debug_logs: the generator starts, `list(voice_debug_logs)` is
\* taken, and it runs to its first suspension
StreamVoiceDebugLogs ==
    /\ Voice.pc = "none"
    /\ Voice.recorded \in ConnectAt
    /\ run' = for_loop([Voice EXCEPT !.connected_at = Voice.recorded],
                       Voice.voice_debug_logs, "replay")
    /\ StoreKept

\* the generator goes on after a yield, in either for loop
YieldNext ==
    /\ run.fn = "voice_logs"
    /\ run.pc \in {"replay", "new"}
    /\ run' = for_loop(run, run.pending, run.pc)
    /\ StoreKept

\* `await asyncio.sleep(0.5)` is over
SleepOver ==
    /\ run.fn = "voice_logs"
    /\ run.pc = "sleep"
    /\ run' = [run EXCEPT !.pc = "check"]
    /\ StoreKept

\* `if len(voice_debug_logs) > last_idx:` at the top of the while loop
CheckNewLogs ==
    /\ run.fn = "voice_logs"
    /\ run.pc = "check"
    /\ run' = IF Len(run.voice_debug_logs) > run.last_idx
              THEN for_loop(run, slice_from(run.voice_debug_logs, run.last_idx), "new")
              ELSE [run EXCEPT !.pc = "sleep"]
    /\ StoreKept

StreamStep == YieldNext \/ SleepOver \/ CheckNewLogs

NextVoice ==
    \/ AddVoiceDebugLog
    \/ StreamVoiceDebugLogs
    \/ YieldNext
    \/ SleepOver
    \/ CheckNewLogs

\* the event loop keeps running the generator while the client is there
SpecVoice == Init /\ [][NextVoice]_vars /\ WF_vars(StreamStep)

Connected == run.fn = "voice_logs" /\ run.pc # "none"

\* entry e was recorded after the client connected
RecordedSince(e) == Connected /\ run.connected_at < e /\ e <= run.recorded

SentTo(e) == Connected /\ \E i \in DOMAIN run.sent : run.sent[i] = e

\* C30: every entry recorded after the client connected is eventually sent
\* to it, and what is sent holds no entry twice and is in the order of
\* recording
C30_NewEntriesStreamed ==
    /\ \A e \in 1..(maxlen + MaxNew) : RecordedSince(e) ~> SentTo(e)
    /\ [](Connected => \A i, j \in DOMAIN run.sent : i < j => run.sent[i] < run.sent[j])
====
